---- MODULE Spec2Model ----
(***************************************************************************)
(* A model of the per-torrent engine of AuroraTorrent (crates/engine):     *)
(* the piece manager (piece.rs), the torrent session with its tasks        *)
(* (session.rs), the peer state (peer.rs) and the streaming read path      *)
(* (lib.rs).                                                               *)
(*                                                                         *)
(* Lengths and offsets are counted in units of 4 KiB, so that the block    *)
(* size of 16 KiB is 4 units and a piece of 8 units holds two blocks.      *)
(* A byte of the model stands for one such unit of content.                *)
(***************************************************************************)
EXTENDS Integers, Sequences, FiniteSets, TLC

----------------------------------------------------------------------------
(* Bounds of the model and program constants.                              *)

\* Longest queue of candidate endpoints the announces are followed for.
MaxAvailable == 2

\* Longest tracker log the tracker loop is followed for.
MaxAnnounces == 3

\* Largest file size the Range parser is run on.
MaxFileSize == 6

\* Longest Range header value (after "bytes=") the parser is run on.
MaxRangeLen == 4

\* Largest number written in a Range header the three forms are checked for.
MaxNumber == 12

\* The longest byte string given to BencodeValue::parse exhaustively.
MaxBencodeLen == 4

\* The cap on open peers at the scale of the two endpoints followed (the
\* source's MAX_PEERS of 50 needs 51 endpoints to be exceeded).
PeerCap == 1

\* piece.rs: pub const BLOCK_SIZE: u32 = 16 * 1024  (4 units of 4 KiB).
BLOCK_SIZE == 4

\* session.rs: const MAX_PENDING: usize = 5.
MAX_PENDING == 5

\* session.rs: const MAX_PEERS: usize = 50.
MAX_PEERS == 50

----------------------------------------------------------------------------
(* The state.                                                              *)

VARIABLES
    \* TorrentMetainfo, immutable after load
    file_lengths,       \* the length of each file, in order
    piece_length,       \* the piece length L
    \* TorrentSession
    state,              \* SessionState
    started,            \* start() has spawned the four session tasks
    connected_peers,    \* HashSet<SocketAddr>
    available_peers,    \* VecDeque<SocketAddr>
    \* PieceManager
    have,               \* BitVec: have[i] <=> piece i is Complete
    in_progress,        \* HashMap<u32, PieceInProgress>
    priority_pieces,    \* HashSet<u32>
    sequential,         \* bool
    \* the download directory
    disk,               \* the byte at each global offset of the stream
    file_exists,        \* whether file f exists (then it has its full length)
    \* the stop channel: for each session task, the state of its receiver
    stop_rx,
    \* tracker_loop
    tracker_pc, tracker_first, tracker_log,
    \* peer_connector_loop, listen_for_peers, stats_update_loop
    connector_pc, listener_pc, stats_pc, stats_progress,
    attempted,          \* the endpoints the connector has dialled (history)
    \* force_recheck and resume in flight; the session is in the sessions map
    recheck_pc, was_state, resume_pc, in_sessions,
    \* one peer task per endpoint: run_peer_session's locals
    ppc, conn_state, bitfield, lstate, pending_requests, blocks_to_request,
    current_piece, vindex, piece_data, verify_result, outbox,
    \* the pieces whose bytes on disk were valid when the session was created
    restored_valid,
    \* stream_handler in flight
    get_pc, get_file, get_range, get_needed, response,
    \* parse_range: its arguments, its result, and whether it has returned
    range_str, file_size, range_out, parsed,
    \* one connection in its handshake (PeerConnection::connect / ::accept)
    hs_dir, hs_remote, hs_pc, hs_wire,
    \* BencodeValue::parse and ::encode: the input and the result
    ben_in, ben_out,
    \* TorrentMetainfo::from_bytes: the input and the result
    tor_in, tor_out,
    \* TorrentMetainfo::from_magnet: the input and the result
    mag_in, mag_out,
    \* Config.ip_filter, and the last ban_ip / unban_ip call for each address
    ip_enabled, banned_ips, ip_last, unban_result,
    \* udp_connect: its position, transaction_id, attempt, the Connect
    \* packets sent, the replies received and the result
    udp_pc, udp_transaction_id, udp_attempt, udp_sent, udp_replies, udp_result,
    \* metainfo.announce and .announce_list, and the announce rounds so far:
    \* the trackers each tried, in order, and the one that answered
    announce, announce_list, announce_log

metaVars == <<file_lengths, piece_length>>

sessVars == <<state, started, connected_peers, available_peers>>

pieceVars == <<have, in_progress, priority_pieces, sequential>>

diskVars == <<disk, file_exists>>

trackerVars == <<tracker_pc, tracker_first, tracker_log>>

loopVars == <<connector_pc, listener_pc, stats_pc, stats_progress, attempted>>

hostVars == <<recheck_pc, was_state, resume_pc, in_sessions>>

peerVars == <<ppc, conn_state, bitfield, lstate, pending_requests,
              blocks_to_request, current_piece, vindex, piece_data,
              verify_result, outbox>>

httpVars == <<get_pc, get_file, get_range, get_needed, response>>

parseVars == <<range_str, file_size, range_out, parsed>>

shakeVars == <<hs_dir, hs_remote, hs_pc, hs_wire>>

bencodeVars == <<ben_in, ben_out>>

torrentVars == <<tor_in, tor_out>>

magnetVars == <<mag_in, mag_out>>

filterVars == <<ip_enabled, banned_ips, ip_last, unban_result>>

\* The variables of the engine's configuration and of its tracker clients.
udpVars == <<udp_pc, udp_transaction_id, udp_attempt, udp_sent, udp_replies,
             udp_result>>

announceVars == <<announce, announce_list, announce_log>>

auxVars == <<filterVars, udpVars, announceVars>>

\* The variables of the handshake and of the decoders, which no step of a
\* running session touches.
codecVars == <<shakeVars, bencodeVars, torrentVars, magnetVars, auxVars>>

\* The variables of a session, its tasks and the streaming path.
sessionVars == <<metaVars, sessVars, pieceVars, diskVars, stop_rx, trackerVars,
                 loopVars, hostVars, peerVars, restored_valid, httpVars, parseVars>>

vars == <<sessionVars, codecVars>>

\* The remote endpoints; at most one peer task per endpoint is followed.
Peers == {1, 2}

SessionTasks == {"tracker", "connector", "listener", "stats"}

SessionStates == {"Starting", "Downloading", "Seeding", "Paused", "Stopped", "Error"}

\* Option::None of a piece index.
None == -1

\* The outcome of a task that panics (an index out of range).
Panic == -2

----------------------------------------------------------------------------
(* Metainfo: the file layout of the torrent (torrent.rs, from_bencode).    *)

NumFiles == Len(file_lengths)

Files == 1..NumFiles

RECURSIVE SumTo(_, _)
SumTo(s, n) == IF n = 0 THEN 0 ELSE s[n] + SumTo(s, n - 1)

\* TorrentFile.offset: offset of file f in the concatenated stream.
FileOffset(f) == SumTo(file_lengths, f - 1)

FileLength(f) == file_lengths[f]

\* TorrentMetainfo.total_size.
total_size == SumTo(file_lengths, NumFiles)

\* PieceManager.num_pieces = piece_hashes.len(); a well-formed metainfo
\* carries one digest per piece of the stream.
num_pieces == (total_size + piece_length - 1) \div piece_length

Pieces == 0..(num_pieces - 1)

Offsets == 0..(total_size - 1)

Min(a, b) == IF a < b THEN a ELSE b

Max(a, b) == IF a > b THEN a ELSE b

\* The true content of the torrent at global offset j (never 0).
Content(j) == (j % 7) + 1

\* A hole of a sparse file, and a fresh buffer (vec![0u8; n]), read as 0.
ZeroByte == 0

----------------------------------------------------------------------------
(* Pure functions of the piece manager (piece.rs).                         *)

\* PieceManager::piece_size
piece_size(piece_idx) ==
    IF piece_idx = num_pieces - 1
    THEN LET remainder == total_size % piece_length
         IN  IF remainder = 0 THEN piece_length ELSE remainder
    ELSE piece_length

RECURSIVE BlocksFrom(_, _, _)
BlocksFrom(piece_idx, offset, size) ==
    IF offset < size
    THEN LET length == Min(BLOCK_SIZE, size - offset)
         IN  <<[piece |-> piece_idx, offset |-> offset, length |-> length]>>
             \o BlocksFrom(piece_idx, offset + length, size)
    ELSE <<>>

\* PieceManager::blocks_for_piece
blocks_for_piece(piece_idx) == BlocksFrom(piece_idx, 0, piece_size(piece_idx))

\* The digest of a byte string.  SHA-1 is taken to be free of collisions:
\* two digests are equal exactly when the hashed strings are.
Sha1(data) == <<"sha1", data>>

\* The true bytes of the global range [from, from + n).
ContentRange(from, n) == [k \in 1..n |-> Content(from + k - 1)]

\* TorrentMetainfo.pieces[i]: the digest of piece i in the metainfo.
piece_hashes(i) == Sha1(ContentRange(i * piece_length, piece_size(i)))

----------------------------------------------------------------------------
(* The piece manager over the state (piece.rs).                            *)

\* PieceManager::is_complete
is_complete == Cardinality({i \in Pieces : have[i]}) = num_pieces

\* PieceManager::verified_count
verified_count == Cardinality({i \in Pieces : have[i]})

\* PieceManager::peer_has_piece, the bitfield being the set of its set bits.
peer_has_piece(peer_has, piece) == piece \in peer_has

\* A piece select_piece may return: not Complete, held by the peer, not in
\* progress.
Eligible(peer_has, piece) ==
    /\ ~have[piece]
    /\ peer_has_piece(peer_has, piece)
    /\ piece \notin DOMAIN in_progress

\* select_piece without its precedences: any eligible piece.
select_piece_unordered(peer_has) ==
    LET elig == {q \in Pieces : Eligible(peer_has, q)}
    IN  IF elig = {} THEN {None} ELSE elig

\* PieceManager::select_piece: the set of its possible outcomes, a piece
\* index, None, or Panic.  The priority set is walked in the arbitrary
\* order of a HashSet and have[piece] is indexed without a range check; the
\* pick among the eligible pieces is random when sequential mode is off.
select_piece(peer_has) ==
    LET inRange  == {q \in priority_pieces : q < num_pieces}
        outRange == {q \in priority_pieces : q >= num_pieces}
        prio     == {q \in inRange : Eligible(peer_has, q)}
        elig     == {q \in Pieces : Eligible(peer_has, q)}
        rest     == IF elig = {} THEN {None}
                    ELSE IF sequential
                         THEN {CHOOSE q \in elig : \A r \in elig : q <= r}
                         ELSE elig
    IN  IF outRange # {}
        THEN prio \cup {Panic}
        ELSE IF prio # {} THEN prio ELSE rest

\* A fresh PieceInProgress.
NewPieceInProgress(piece_idx) ==
    [blocks |-> <<>>,
     expected_blocks |-> Len(blocks_for_piece(piece_idx)),
     received_blocks |-> 0]

\* m with key k bound to v (HashMap::insert).
MapInsert(m, k, v) == [x \in (DOMAIN m) \cup {k} |-> IF x = k THEN v ELSE m[x]]

\* m without key k (HashMap::remove).
MapRemove(m, k) == [x \in (DOMAIN m) \ {k} |-> m[x]]

\* cancel_piece leaving the entry of the piece in the map.
cancel_piece_kept(piece_idx) == in_progress

\* PieceManager::cancel_piece: the in-progress map after it.
cancel_piece(piece_idx) == MapRemove(in_progress, piece_idx)

\* PieceManager::start_piece: the in-progress map after it.
start_piece(piece_idx) == MapInsert(in_progress, piece_idx, NewPieceInProgress(piece_idx))

\* PieceManager::receive_block: whether the block is stored (the piece is
\* in progress and holds no block at this offset yet).
BlockStored(piece_idx, offset) ==
    /\ piece_idx \in DOMAIN in_progress
    /\ offset \notin DOMAIN in_progress[piece_idx].blocks

\* PieceManager::receive_block: the in-progress map after it.
receive_block_map(piece_idx, offset, data) ==
    IF BlockStored(piece_idx, offset)
    THEN LET e == in_progress[piece_idx]
         IN  MapInsert(in_progress, piece_idx,
                 [e EXCEPT !.blocks = MapInsert(e.blocks, offset, data),
                           !.received_blocks = e.received_blocks + 1])
    ELSE in_progress

\* PieceManager::receive_block: its result.
receive_block(piece_idx, offset, data) ==
    /\ BlockStored(piece_idx, offset)
    /\ in_progress[piece_idx].received_blocks + 1
          >= in_progress[piece_idx].expected_blocks

\* The byte of the assembled piece at position k (from 1): the byte of a
\* block covering it, else the 0 of the fresh buffer.
AssembledByte(blocks, size, k) ==
    LET cover == {o \in DOMAIN blocks : o < k /\ k <= Min(o + Len(blocks[o]), size)}
    IN  IF cover = {} THEN ZeroByte
        ELSE LET o == CHOOSE x \in cover : \A y \in cover : x >= y
             IN  blocks[o][k - o]

\* verify_and_write_piece: the piece assembled from its blocks.
Assemble(piece_idx) ==
    LET size == piece_size(piece_idx)
    IN  [k \in 1..size |-> AssembledByte(in_progress[piece_idx].blocks, size, k)]

\* verify_and_write_piece: whether the assembly panics: a block that begins
\* past the end of the piece makes data[start..end] a slice with start > end.
AssemblyPanics(piece_idx) ==
    \E o \in DOMAIN in_progress[piece_idx].blocks : o > piece_size(piece_idx)

\* verify_and_write_piece: whether the assembled piece hashes to its digest.
HashMatches(piece_idx) == Sha1(Assemble(piece_idx)) = piece_hashes(piece_idx)

----------------------------------------------------------------------------
(* The files (piece.rs: write_piece, read_data).                           *)

\* Whether the global range [from, to) overlaps file f.
Overlaps(from, to, f) == from < FileOffset(f) + FileLength(f) /\ to > FileOffset(f)

\* The files write_piece goes through for piece piece_idx, in order.
FilesOfPiece(piece_idx) ==
    {f \in Files : Overlaps(piece_idx * piece_length,
                            piece_idx * piece_length + piece_size(piece_idx), f)}

\* write_piece: the files it has written when it returns, fail_at being the
\* file whose open, seek or write fails (0: none does).
WrittenFiles(piece_idx, fail_at) ==
    {f \in FilesOfPiece(piece_idx) : fail_at = 0 \/ f < fail_at}

\* The file that holds the global offset j.
FileOf(j) == CHOOSE f \in Files : Overlaps(j, j + 1, f)

\* The byte of file f at the file-local offset k.
FileByte(f, k) == disk[FileOffset(f) + k]

\* write_piece handing every file the head of data, not the slice from
\* data_offset.
write_piece_byte_unsliced(f, k, piece_idx, data, fail_at) ==
    LET piece_start   == piece_idx * piece_length
        piece_end     == piece_start + Len(data)
        file_start    == FileOffset(f)
        file_end      == FileOffset(f) + FileLength(f)
        overlap_start == Max(piece_start, file_start)
        overlap_end   == Min(piece_end, file_end)
        data_len      == overlap_end - overlap_start
        file_offset   == overlap_start - file_start
    IN  IF /\ f \in WrittenFiles(piece_idx, fail_at)
           /\ piece_start < file_end
           /\ piece_end > file_start
           /\ file_offset <= k
           /\ k < file_offset + data_len
        THEN data[(k - file_offset) + 1]
        ELSE FileByte(f, k)

\* write_piece: the byte of file f at the file-local offset k after it.  A
\* written file receives data[data_offset .. data_offset + data_len] from
\* file_offset on.
write_piece_byte(f, k, piece_idx, data, fail_at) ==
    LET piece_start   == piece_idx * piece_length
        piece_end     == piece_start + Len(data)
        file_start    == FileOffset(f)
        file_end      == FileOffset(f) + FileLength(f)
        overlap_start == Max(piece_start, file_start)
        overlap_end   == Min(piece_end, file_end)
        data_offset   == overlap_start - piece_start
        data_len      == overlap_end - overlap_start
        file_offset   == overlap_start - file_start
    IN  IF /\ f \in WrittenFiles(piece_idx, fail_at)
           /\ piece_start < file_end
           /\ piece_end > file_start
           /\ file_offset <= k
           /\ k < file_offset + data_len
        THEN data[data_offset + (k - file_offset) + 1]
        ELSE FileByte(f, k)

\* write_piece: the disk after it.  A file that did not exist is created
\* and grown to its length; the overlap of the piece and each written file
\* receives the bytes of data.
write_piece_disk(piece_idx, data, fail_at) ==
    [j \in Offsets |->
        write_piece_byte(FileOf(j), j - FileOffset(FileOf(j)), piece_idx, data, fail_at)]

\* write_piece: the files that exist after it.
write_piece_files(piece_idx, fail_at) ==
    [f \in Files |-> file_exists[f] \/ f \in WrittenFiles(piece_idx, fail_at)]

\* write_piece: Ok(()) or Err.
write_piece_ok(piece_idx, fail_at) == fail_at = 0

\* read_data: the number of bytes it reads, those of the range that lie in
\* an existing file.
bytes_read(offset, length) ==
    Cardinality({j \in Offsets : /\ offset <= j
                                 /\ j < offset + length
                                 /\ \E f \in Files : file_exists[f] /\ Overlaps(j, j + 1, f)})

\* read_data: Ok (every byte of the range was read) or Err.
read_data_ok(offset, length) == bytes_read(offset, length) = length

\* read_data: the bytes of an Ok result.
read_data(offset, length) ==
    [r \in 1..length |->
        LET f             == FileOf(offset + r - 1)
            overlap_start == Max(offset, FileOffset(f))
            result_offset == overlap_start - offset
            file_offset   == overlap_start - FileOffset(f)
        IN  FileByte(f, file_offset + (r - 1 - result_offset))]

\* verify_all marking every piece it could read, whatever its hash.
PieceOnDiskValidUnhashed(i) == read_data_ok(i * piece_length, piece_size(i))

\* Whether the bytes of piece i on disk hash to its digest (verify_all).
PieceOnDiskValid(i) ==
    /\ read_data_ok(i * piece_length, piece_size(i))
    /\ Sha1(read_data(i * piece_length, piece_size(i))) = piece_hashes(i)

\* PieceManager::verify_all: the piece map after it.
verify_all == [i \in Pieces |-> PieceOnDiskValid(i)]

\* PieceManager::is_range_available
is_range_available(offset, length) ==
    LET first_piece == offset \div piece_length
        last_piece   == (offset + length - 1) \div piece_length
    IN  \A piece \in first_piece..last_piece : ~(piece < num_pieces /\ ~have[piece])

\* A pieces_for_range that looks at the first piece of the range only.
pieces_for_range_first(offset, length) ==
    {q \in {offset \div piece_length} : q < num_pieces /\ ~have[q]}

\* PieceManager::pieces_for_range
pieces_for_range(offset, length) ==
    LET first_piece == offset \div piece_length
        last_piece   == (offset + length - 1) \div piece_length
    IN  {q \in first_piece..last_piece : q < num_pieces /\ ~have[q]}

----------------------------------------------------------------------------
(* The initial state: TorrentSession::new over a download directory.       *)

\* PeerState::default
PeerStateDefault ==
    [am_choking |-> TRUE, am_interested |-> FALSE,
     peer_choking |-> TRUE, peer_interested |-> FALSE]

\* No call of parse_range is followed.
ParseIdle ==
    /\ range_str = <<>>
    /\ file_size = 0
    /\ range_out = <<>>
    /\ parsed = FALSE

\* No connection is in its handshake.
ShakeIdle ==
    /\ hs_dir = "none"
    /\ hs_remote = <<>>
    /\ hs_pc = "idle"
    /\ hs_wire = <<>>

\* No call of BencodeValue::parse or ::encode is followed.
BencodeIdle ==
    /\ ben_in = <<>>
    /\ ben_out = <<>>

\* No call of TorrentMetainfo::from_bytes is followed.
TorrentIdle ==
    /\ tor_in = <<>>
    /\ tor_out = <<>>

\* No call of TorrentMetainfo::from_magnet is followed.
MagnetIdle ==
    /\ mag_in = <<>>
    /\ mag_out = <<>>

\* The addresses given to ban_ip, unban_ip and is_ip_banned.
Ips == {"192.168.1.100", "192.168.1.101", "10.0.0.1"}

\* Config::default(): the filter is off and no address is banned.
FilterIdle ==
    /\ ip_enabled = FALSE
    /\ banned_ips = <<>>
    /\ ip_last = [ip \in Ips |-> "none"]
    /\ unban_result = <<>>

\* No UDP announce in flight.
UdpIdle ==
    /\ udp_pc = "idle"
    /\ udp_transaction_id = 0
    /\ udp_attempt = 0
    /\ udp_sent = <<>>
    /\ udp_replies = <<>>
    /\ udp_result = "none"

\* A metainfo without trackers and no announce round made.
AnnounceIdle ==
    /\ announce = ""
    /\ announce_list = <<>>
    /\ announce_log = <<>>

AuxIdle == FilterIdle /\ UdpIdle /\ AnnounceIdle

CodecIdle == ShakeIdle /\ BencodeIdle /\ TorrentIdle /\ MagnetIdle /\ AuxIdle

\* A download directory in which the files in fs exist and hold the true
\* content, except for holes (zeros) over the pieces in holes.
DiskWith(fs, holes) ==
    [disk |-> [j \in Offsets |->
                  IF /\ \E f \in fs : Overlaps(j, j + 1, f)
                     /\ (j \div piece_length) \notin holes
                  THEN Content(j) ELSE ZeroByte],
     file_exists |-> [f \in Files |-> f \in fs]]

\* A torrent of two files of 10 with pieces of 8: pieces of 8, 8 and 4,
\* piece 1 across the file boundary.
LayoutTwoTens == [files |-> <<10, 10>>, piece_length |-> 8]

\* A torrent of files of 2 and 6 with pieces of 4: two pieces of one block,
\* piece 0 across the file boundary.
LayoutTwoAndSix == [files |-> <<2, 6>>, piece_length |-> 4]

\* A torrent of two files of 6 with pieces of 8: pieces of 8 (two blocks,
\* across the file boundary) and 4.
LayoutTwoSixes == [files |-> <<6, 6>>, piece_length |-> 8]

\* The state after TorrentSession::new (session.rs) for the metainfo m
\* over a download directory holding the files fs with the holes holes.
InitSession(m, fs, holes) ==
    /\ file_lengths = m.files
    /\ piece_length = m.piece_length
    /\ state = "Starting"
    /\ started = FALSE
    /\ connected_peers = {}
    /\ available_peers = <<>>
    /\ have = [i \in Pieces |-> FALSE]
    /\ in_progress = <<>>
    /\ priority_pieces = {}
    /\ sequential = FALSE
    /\ disk = DiskWith(fs, holes).disk
    /\ file_exists = DiskWith(fs, holes).file_exists
    /\ stop_rx = [t \in SessionTasks |-> "none"]
    /\ tracker_pc = "idle"
    /\ tracker_first = TRUE
    /\ tracker_log = <<>>
    /\ connector_pc = "idle"
    /\ listener_pc = "idle"
    /\ stats_pc = "idle"
    /\ stats_progress = 0
    /\ attempted = {}
    /\ recheck_pc = "idle"
    /\ was_state = "Starting"
    /\ resume_pc = "idle"
    /\ in_sessions = FALSE
    /\ ppc = [p \in Peers |-> "idle"]
    /\ conn_state = [p \in Peers |-> PeerStateDefault]
    /\ bitfield = [p \in Peers |-> {}]
    /\ lstate = [p \in Peers |-> "Starting"]
    /\ pending_requests = [p \in Peers |-> <<>>]
    /\ blocks_to_request = [p \in Peers |-> <<>>]
    /\ current_piece = [p \in Peers |-> None]
    /\ vindex = [p \in Peers |-> None]
    /\ piece_data = [p \in Peers |-> <<>>]
    /\ verify_result = [p \in Peers |-> "none"]
    /\ outbox = [p \in Peers |-> <<>>]
    /\ restored_valid = {i \in Pieces : PieceOnDiskValid(i)}
    /\ get_pc = "idle"
    /\ get_file = 1
    /\ get_range = <<0, 0>>
    /\ get_needed = {}
    /\ response = [status |-> 0, body |-> <<>>]

----------------------------------------------------------------------------
(* The host-facing operations (lib.rs over session.rs).  The engine creates *)
(* a session with new, starts it or not, and only then puts it in its       *)
(* sessions map, where the host's commands and the queue manager find it.   *)

\* TorrentSession::start, called by add_torrent_bytes and restore_torrent
\* right after new, before the session is in the sessions map.
Start ==
    /\ ~started
    /\ ~in_sessions
    /\ started' = TRUE
    /\ state' = "Downloading"
    /\ tracker_pc' = "spawned"
    /\ connector_pc' = "spawned"
    /\ listener_pc' = "spawned"
    /\ stats_pc' = "spawned"
    /\ UNCHANGED <<connected_peers, available_peers, pieceVars, diskVars, stop_rx,
                   tracker_first, tracker_log, stats_progress, attempted, hostVars, peerVars,
                   restored_valid, httpVars, parseVars, metaVars,
                   codecVars>>

\* self.sessions.insert(id, session): with or without a start before it
\* (add_paused, auto_start off, or a torrent restored as not running).
SessionsInsert ==
    /\ ~in_sessions
    /\ in_sessions' = TRUE
    /\ UNCHANGED <<sessVars, pieceVars, diskVars, stop_rx, trackerVars, loopVars,
                   recheck_pc, was_state, resume_pc, peerVars, restored_valid,
                   httpVars, parseVars, metaVars,
                   codecVars>>

\* TorrentSession::stop: the state, then one message to every receiver
\* that is subscribed at this moment.
Stop ==
    /\ in_sessions
    /\ state' = "Stopped"
    /\ stop_rx' = [t \in SessionTasks |-> IF stop_rx[t] = "none" THEN "none" ELSE "msg"]
    /\ UNCHANGED <<started, connected_peers, available_peers, pieceVars, diskVars,
                   trackerVars, loopVars, hostVars, peerVars, restored_valid,
                   httpVars, parseVars, metaVars,
                   codecVars>>

\* TorrentSession::pause
Pause ==
    /\ in_sessions
    /\ state' = "Paused"
    /\ UNCHANGED <<started, connected_peers, available_peers, pieceVars, diskVars,
                   stop_rx, trackerVars, loopVars, hostVars, peerVars,
                   restored_valid, httpVars, parseVars, metaVars,
                   codecVars>>

\* TorrentSession::resume, first half: is_complete is read under the lock
\* of the piece map.
ResumeRead ==
    /\ in_sessions
    /\ resume_pc = "idle"
    /\ resume_pc' = IF is_complete THEN "complete" ELSE "incomplete"
    /\ UNCHANGED <<sessVars, pieceVars, diskVars, stop_rx, trackerVars, loopVars,
                   recheck_pc, was_state, in_sessions, peerVars, restored_valid,
                   httpVars, parseVars, metaVars,
                   codecVars>>

\* TorrentSession::resume, second half: the state is written.
ResumeWrite ==
    /\ resume_pc # "idle"
    /\ state' = IF resume_pc = "complete" THEN "Seeding" ELSE "Downloading"
    /\ resume_pc' = "idle"
    /\ UNCHANGED <<started, connected_peers, available_peers, pieceVars, diskVars,
                   stop_rx, trackerVars, loopVars, recheck_pc, was_state,
                   in_sessions, peerVars, restored_valid, httpVars, parseVars,
                   metaVars,
                   codecVars>>

\* Engine::process_queue over this session (lib.rs): a Paused or Stopped
\* session whose sampled progress is below 1.0 is resumed (no other
\* session is downloading, and max_active_downloads is at least 1).
ProcessQueue ==
    /\ state \in {"Paused", "Stopped"}
    /\ stats_progress < num_pieces
    /\ ResumeRead

\* TorrentSession::force_recheck, first part: the state is remembered and
\* set to Starting.
RecheckBegin ==
    /\ in_sessions
    /\ recheck_pc = "idle"
    /\ was_state' = state
    /\ state' = "Starting"
    /\ recheck_pc' = "verify"
    /\ UNCHANGED <<started, connected_peers, available_peers, pieceVars, diskVars,
                   stop_rx, trackerVars, loopVars, resume_pc, in_sessions, peerVars,
                   restored_valid, httpVars, parseVars, metaVars,
                   codecVars>>

\* No peer task holds the read lock of the piece map across an await (it
\* does from the hash check of verify_and_write_piece to the end of the
\* write).
NoReader == \A q \in Peers : ppc[q] # "write"

\* force_recheck, second part: verify_all under the write lock of the piece
\* map: every piece is re-read from disk, the in-progress map is cleared.
RecheckVerify ==
    /\ recheck_pc = "verify"
    /\ NoReader
    /\ have' = verify_all
    /\ in_progress' = <<>>
    /\ recheck_pc' = "read"
    /\ UNCHANGED <<sessVars, priority_pieces, sequential, diskVars, stop_rx,
                   trackerVars, loopVars, was_state, resume_pc, in_sessions,
                   peerVars, restored_valid, httpVars, parseVars, metaVars,
                   codecVars>>

\* force_recheck, third part: is_complete is read under the read lock.
RecheckRead ==
    /\ recheck_pc = "read"
    /\ recheck_pc' = IF is_complete THEN "complete" ELSE "incomplete"
    /\ UNCHANGED <<sessVars, pieceVars, diskVars, stop_rx, trackerVars, loopVars,
                   was_state, resume_pc, in_sessions, peerVars, restored_valid,
                   httpVars, parseVars, metaVars,
                   codecVars>>

\* force_recheck, last part: Seeding if complete, else Paused if it was
\* Paused, else Downloading.
RecheckFinish ==
    /\ recheck_pc \in {"complete", "incomplete"}
    /\ state' = IF recheck_pc = "complete" THEN "Seeding"
                ELSE IF was_state = "Paused" THEN "Paused"
                ELSE "Downloading"
    /\ recheck_pc' = "idle"
    /\ UNCHANGED <<started, connected_peers, available_peers, pieceVars, diskVars,
                   stop_rx, trackerVars, loopVars, was_state, resume_pc,
                   in_sessions, peerVars, restored_valid, httpVars, parseVars,
                   metaVars,
                   codecVars>>

----------------------------------------------------------------------------
(* The session tasks (session.rs).  Each subscribes to the stop channel    *)
(* when it first runs, then loops on select! over the channel and its      *)
(* timer; select! picks any ready branch.                                  *)

\* stop_rx with the receiver of task t subscribed (stop_tx.subscribe()): a
\* new receiver sees only the messages sent after it.
Subscribed(t) == [stop_rx EXCEPT ![t] = "empty"]

\* tracker_loop: let mut stop_rx = self.stop_tx.subscribe()
TrackerSubscribe ==
    /\ tracker_pc = "spawned"
    /\ tracker_pc' = "loop"
    /\ stop_rx' = Subscribed("tracker")
    /\ UNCHANGED <<sessVars, pieceVars, diskVars, tracker_first, tracker_log,
                   loopVars, hostVars, peerVars, restored_valid, httpVars, parseVars, metaVars,
                   codecVars>>

\* announce_to_trackers: the candidate queue after a response that lists
\* the endpoints peers (those not connected are appended).
QueueAfterAnnounce(peers) ==
    available_peers \o SelectSeq(peers, LAMBDA a : a \notin connected_peers)

\* tracker_loop, the interval.tick() branch: nothing while Paused, else an
\* announce with Started the first time and None after it.
TrackerTick(peers) ==
    /\ tracker_pc = "loop"
    /\ IF state = "Paused"
       THEN UNCHANGED <<tracker_first, tracker_log, available_peers>>
       ELSE /\ Len(tracker_log) < MaxAnnounces
            /\ Len(QueueAfterAnnounce(peers)) <= MaxAvailable
            /\ tracker_log' = Append(tracker_log,
                                     IF tracker_first THEN "Started" ELSE "None")
            /\ tracker_first' = FALSE
            /\ available_peers' = QueueAfterAnnounce(peers)
    /\ UNCHANGED <<state, started, connected_peers, pieceVars, diskVars, stop_rx,
                   tracker_pc, loopVars, hostVars, peerVars, restored_valid,
                   httpVars, parseVars, metaVars,
                   codecVars>>

\* tracker_loop, the stop_rx.recv() branch: break.
TrackerStop ==
    /\ tracker_pc = "loop"
    /\ stop_rx["tracker"] = "msg"
    /\ tracker_pc' = "stopping"
    /\ UNCHANGED <<sessVars, pieceVars, diskVars, stop_rx, tracker_first,
                   tracker_log, loopVars, hostVars, peerVars, restored_valid,
                   httpVars, parseVars, metaVars,
                   codecVars>>

\* tracker_loop after the loop: announce Stopped, and the task ends.
TrackerAnnounceStopped ==
    /\ tracker_pc = "stopping"
    /\ tracker_log' = Append(tracker_log, "Stopped")
    /\ tracker_pc' = "done"
    /\ UNCHANGED <<sessVars, pieceVars, diskVars, stop_rx, tracker_first,
                   loopVars, hostVars, peerVars, restored_valid, httpVars, parseVars, metaVars,
                   codecVars>>

\* peer_connector_loop: subscribe.
ConnectorSubscribe ==
    /\ connector_pc = "spawned"
    /\ connector_pc' = "loop"
    /\ stop_rx' = Subscribed("connector")
    /\ UNCHANGED <<sessVars, pieceVars, diskVars, trackerVars, listener_pc,
                   stats_pc, stats_progress, attempted, hostVars, peerVars, restored_valid,
                   httpVars, parseVars, metaVars,
                   codecVars>>

\* peer_connector_loop, the sleep branch: unless Paused, Stopped or at the
\* cap, the front endpoint is popped and, if it is not connected, a task
\* is spawned that connects to it.  (At most one task per endpoint is
\* followed: an attempt on an endpoint that has a live task is a refused
\* connection.  The semaphore of cap permits never runs out while no more
\* than cap endpoints are dialled.)  The cap is a parameter so that it can
\* be followed at a scale of a few endpoints.
ConnectorTickUnder(cap) ==
    /\ connector_pc = "loop"
    /\ state \notin {"Paused", "Stopped"}
    /\ Cardinality(connected_peers) < cap
    /\ available_peers # <<>>
    /\ available_peers' = Tail(available_peers)
    /\ LET addr == Head(available_peers)
       IN  IF addr \notin connected_peers /\ ppc[addr] = "idle"
           THEN /\ ppc' = [ppc EXCEPT ![addr] = "connect"]
                /\ attempted' = attempted \cup {addr}
           ELSE UNCHANGED <<ppc, attempted>>
    /\ UNCHANGED <<state, started, connected_peers, pieceVars, diskVars, stop_rx,
                   trackerVars, connector_pc, listener_pc, stats_pc,
                   stats_progress, hostVars, conn_state, bitfield, lstate,
                   pending_requests, blocks_to_request, current_piece, vindex,
                   piece_data, verify_result, outbox, restored_valid, httpVars,
                   parseVars, metaVars,
                   codecVars>>

\* The sleep branch under the cap of the source.
ConnectorTick == ConnectorTickUnder(MAX_PEERS)

\* peer_connector_loop, the stop branch: break, and the task ends.
ConnectorStop ==
    /\ connector_pc = "loop"
    /\ stop_rx["connector"] = "msg"
    /\ connector_pc' = "done"
    /\ UNCHANGED <<sessVars, pieceVars, diskVars, stop_rx, trackerVars, listener_pc,
                   stats_pc, stats_progress, attempted, hostVars, peerVars, restored_valid,
                   httpVars, parseVars, metaVars,
                   codecVars>>

\* listen_for_peers: the port is bound, then the task subscribes; a failed
\* bind ends the task.
ListenerBind(ok) ==
    /\ listener_pc = "spawned"
    /\ listener_pc' = IF ok THEN "loop" ELSE "done"
    /\ stop_rx' = IF ok THEN Subscribed("listener") ELSE stop_rx
    /\ UNCHANGED <<sessVars, pieceVars, diskVars, trackerVars, connector_pc,
                   stats_pc, stats_progress, attempted, hostVars, peerVars, restored_valid,
                   httpVars, parseVars, metaVars,
                   codecVars>>

\* listen_for_peers, the accept branch: below the cap, a task is spawned
\* that takes the handshake of the incoming connection.
ListenerAcceptUnder(cap, addr) ==
    /\ listener_pc = "loop"
    /\ Cardinality(connected_peers) < cap
    /\ ppc[addr] = "idle"
    /\ ppc' = [ppc EXCEPT ![addr] = "connect"]
    /\ UNCHANGED <<sessVars, pieceVars, diskVars, stop_rx, trackerVars, loopVars,
                   hostVars, conn_state, bitfield, lstate, pending_requests,
                   blocks_to_request, current_piece, vindex, piece_data,
                   verify_result, outbox, restored_valid, httpVars, parseVars, metaVars,
                   codecVars>>

\* The accept branch under the cap of the source.
ListenerAccept(addr) == ListenerAcceptUnder(MAX_PEERS, addr)

\* listen_for_peers, the stop branch.
ListenerStop ==
    /\ listener_pc = "loop"
    /\ stop_rx["listener"] = "msg"
    /\ listener_pc' = "done"
    /\ UNCHANGED <<sessVars, pieceVars, diskVars, stop_rx, trackerVars, connector_pc,
                   stats_pc, stats_progress, attempted, hostVars, peerVars, restored_valid,
                   httpVars, parseVars, metaVars,
                   codecVars>>

\* stats_update_loop: subscribe.
StatsSubscribe ==
    /\ stats_pc = "spawned"
    /\ stats_pc' = "loop"
    /\ stop_rx' = Subscribed("stats")
    /\ UNCHANGED <<sessVars, pieceVars, diskVars, trackerVars, connector_pc,
                   listener_pc, stats_progress, attempted, hostVars, peerVars, restored_valid,
                   httpVars, parseVars, metaVars,
                   codecVars>>

\* stats_update_loop, the tick branch: the progress is sampled (counted in
\* verified pieces; the rates are not followed).
StatsTick ==
    /\ stats_pc = "loop"
    /\ stats_progress' = verified_count
    /\ UNCHANGED <<sessVars, pieceVars, diskVars, stop_rx, trackerVars,
                   connector_pc, listener_pc, stats_pc, attempted, hostVars,
                   peerVars, restored_valid, httpVars, parseVars, metaVars,
                   codecVars>>

\* stats_update_loop, the stop branch.
StatsStop ==
    /\ stats_pc = "loop"
    /\ stop_rx["stats"] = "msg"
    /\ stats_pc' = "done"
    /\ UNCHANGED <<sessVars, pieceVars, diskVars, stop_rx, trackerVars,
                   connector_pc, listener_pc, stats_progress, attempted, hostVars, peerVars,
                   restored_valid, httpVars, parseVars, metaVars,
                   codecVars>>

----------------------------------------------------------------------------
(* The messages of the peer wire protocol (peer.rs: PeerMessage).          *)

Msg(t) == [type |-> t]

ControlMessages ==
    {Msg("KeepAlive"), Msg("Choke"), Msg("Unchoke"), Msg("Interested"),
     Msg("NotInterested")}

HaveMessages == {[type |-> "Have", piece_index |-> i] : i \in Pieces}

BitfieldMessages == {[type |-> "Bitfield", bitfield |-> b] : b \in {{}, Pieces}}

\* Every block of every piece.
AllBlocks == UNION {{blocks_for_piece(i)[k] : k \in 1..Len(blocks_for_piece(i))} : i \in Pieces}

RequestMessages ==
    {[type |-> "Request", index |-> b.piece, begin |-> b.offset, length |-> b.length] :
        b \in AllBlocks}

\* The true bytes of a block.
GoodBlock(b) == ContentRange(b.piece * piece_length + b.offset, b.length)

\* Bytes of the length of the block that are not its true bytes.
BadBlock(b) == [k \in 1..b.length |-> 9]

PieceMessages ==
    {[type |-> "Piece", index |-> b.piece, begin |-> b.offset, block |-> GoodBlock(b)] :
        b \in AllBlocks}
    \cup
    {[type |-> "Piece", index |-> b.piece, begin |-> b.offset, block |-> BadBlock(b)] :
        b \in AllBlocks}

\* The messages a remote peer is taken to send.
PeerMessages ==
    ControlMessages \cup HaveMessages \cup BitfieldMessages \cup RequestMessages
    \cup PieceMessages

\* A handle_message that also takes a Have as a sign of interest.
handle_message_state_have(cs, msg) ==
    IF msg.type = "Choke" THEN [cs EXCEPT !.peer_choking = TRUE]
    ELSE IF msg.type = "Unchoke" THEN [cs EXCEPT !.peer_choking = FALSE]
    ELSE IF msg.type \in {"Interested", "Have"} THEN [cs EXCEPT !.peer_interested = TRUE]
    ELSE IF msg.type = "NotInterested" THEN [cs EXCEPT !.peer_interested = FALSE]
    ELSE cs

\* PeerConnection::handle_message: the connection state after msg.
handle_message_state(cs, msg) ==
    IF msg.type = "Choke" THEN [cs EXCEPT !.peer_choking = TRUE]
    ELSE IF msg.type = "Unchoke" THEN [cs EXCEPT !.peer_choking = FALSE]
    ELSE IF msg.type = "Interested" THEN [cs EXCEPT !.peer_interested = TRUE]
    ELSE IF msg.type = "NotInterested" THEN [cs EXCEPT !.peer_interested = FALSE]
    ELSE cs

\* PeerConnection::handle_message: the peer's bitfield after msg.
handle_message_bitfield(bf, msg) ==
    IF msg.type = "Bitfield" THEN msg.bitfield
    ELSE IF msg.type = "Have" THEN bf \cup {msg.piece_index}
    ELSE bf

----------------------------------------------------------------------------
(* The peer task (session.rs: handle_peer_connection, handle_incoming_peer,*)
(* run_peer_session).  A step runs from one await on shared state to the   *)
(* next.                                                                   *)

\* The locals of a task that has ended.
ResetLocals(p) ==
    /\ conn_state' = [conn_state EXCEPT ![p] = PeerStateDefault]
    /\ bitfield' = [bitfield EXCEPT ![p] = {}]
    /\ lstate' = [lstate EXCEPT ![p] = "Starting"]
    /\ pending_requests' = [pending_requests EXCEPT ![p] = <<>>]
    /\ blocks_to_request' = [blocks_to_request EXCEPT ![p] = <<>>]
    /\ current_piece' = [current_piece EXCEPT ![p] = None]
    /\ vindex' = [vindex EXCEPT ![p] = None]
    /\ piece_data' = [piece_data EXCEPT ![p] = <<>>]
    /\ verify_result' = [verify_result EXCEPT ![p] = "none"]
    /\ outbox' = [outbox EXCEPT ![p] = <<>>]

\* disconnect_peer, and the task ends.
Disconnect(p) ==
    /\ connected_peers' = connected_peers \ {p}
    /\ ppc' = [ppc EXCEPT ![p] = "idle"]
    /\ ResetLocals(p)

\* PeerConnection::connect or ::accept fails: the task ends.
PeerConnectFail(p) ==
    /\ ppc[p] = "connect"
    /\ ppc' = [ppc EXCEPT ![p] = "idle"]
    /\ UNCHANGED <<sessVars, pieceVars, diskVars, stop_rx, trackerVars, loopVars,
                   hostVars, conn_state, bitfield, lstate, pending_requests,
                   blocks_to_request, current_piece, vindex, piece_data,
                   verify_result, outbox, restored_valid, httpVars, parseVars, metaVars,
                   codecVars>>

\* run_peer_session up to its loop: the endpoint is marked connected, our
\* bitfield and Interested are sent; a failed send disconnects.
PeerBegin(p, sent) ==
    /\ ppc[p] = "connect"
    /\ IF sent
       THEN /\ connected_peers' = connected_peers \cup {p}
            /\ ppc' = [ppc EXCEPT ![p] = "top"]
            /\ conn_state' = [conn_state EXCEPT ![p] =
                                 [PeerStateDefault EXCEPT !.am_interested = TRUE]]
            /\ outbox' = [outbox EXCEPT ![p] =
                             <<[type |-> "Bitfield",
                                bitfield |-> {i \in Pieces : have[i]}],
                               Msg("Interested")>>]
            /\ UNCHANGED <<bitfield, lstate, pending_requests, blocks_to_request,
                           current_piece, vindex, piece_data, verify_result>>
       ELSE Disconnect(p)
    /\ UNCHANGED <<state, started, available_peers, pieceVars, diskVars, stop_rx,
                   trackerVars, loopVars, hostVars, restored_valid, httpVars,
                   parseVars, metaVars,
                   codecVars>>

\* The number of Requests the send loop attempts: up to MAX_PENDING pending.
SendCount(p) ==
    Min(Max(MAX_PENDING - Len(pending_requests[p]), 0), Len(blocks_to_request[p]))

\* A send loop that does not stop at MAX_PENDING pending Requests.
SentBlocksUnbounded(p, q, fail) ==
    SubSeq(q, 1, IF fail = 0 THEN Len(q) ELSE fail - 1)

\* The send loop over the queue q (blocks_to_request): the Requests that
\* were sent, fail being the attempt whose send fails (0: none); the block
\* of a failed send is popped and not pended.
SentBlocks(p, q, fail) ==
    LET n == Min(Max(MAX_PENDING - Len(pending_requests[p]), 0), Len(q))
    IN  SubSeq(q, 1, IF fail = 0 THEN n ELSE fail - 1)

\* The send loop: the queue left.
LeftBlocks(p, q, fail) ==
    LET n == Min(Max(MAX_PENDING - Len(pending_requests[p]), 0), Len(q))
    IN  SubSeq(q, (IF fail = 0 THEN n ELSE fail) + 1, Len(q))

RequestOf(b) ==
    [type |-> "Request", index |-> b.piece, begin |-> b.offset, length |-> b.length]

\* The send loop of run_peer_session over the queue q.
SendRequests(p, q, fail) ==
    /\ pending_requests' = [pending_requests EXCEPT ![p] = @ \o SentBlocks(p, q, fail)]
    /\ blocks_to_request' = [blocks_to_request EXCEPT ![p] = LeftBlocks(p, q, fail)]
    /\ outbox' = [outbox EXCEPT ![p] =
                     [k \in 1..Len(SentBlocks(p, q, fail)) |->
                         RequestOf(SentBlocks(p, q, fail)[k])]]

\* A task that requests whenever the state is Downloading, choked or not.
CanRequestChoked(p, st) == st = "Downloading"

\* A task that requests whenever the peer does not choke us, whatever the
\* state of the session.
CanRequestAnyState(p, st) == ~conn_state[p].peer_choking

\* Whether the task may request: the peer does not choke us and the state
\* read at the top of the loop is Downloading.
CanRequest(p, st) == ~conn_state[p].peer_choking /\ st = "Downloading"

\* The top of the loop: the state is read; Stopped ends the task.  Else, if
\* the task may request, it goes on to select a piece when it has none and
\* nothing queued, or sends the queued Requests; then it receives.
PeerTop(p, fail) ==
    /\ ppc[p] \in {"top", "top_idle"}
    /\ IF state = "Stopped"
       THEN /\ fail = 0
            /\ Disconnect(p)
       ELSE /\ lstate' = [lstate EXCEPT ![p] = state]
            /\ UNCHANGED <<connected_peers, conn_state, bitfield, current_piece,
                           vindex, piece_data, verify_result>>
            /\ IF /\ CanRequest(p, state)
                  /\ blocks_to_request[p] = <<>>
                  /\ Len(pending_requests[p]) < MAX_PENDING
                  /\ current_piece[p] = None
               THEN /\ fail = 0
                    /\ ppc' = [ppc EXCEPT ![p] = "select"]
                    /\ outbox' = [outbox EXCEPT ![p] = <<>>]
                    /\ UNCHANGED <<pending_requests, blocks_to_request>>
               ELSE /\ ppc' = [ppc EXCEPT ![p] = "recv"]
                    /\ IF CanRequest(p, state)
                       THEN /\ fail <= SendCount(p)
                            /\ SendRequests(p, blocks_to_request[p], fail)
                       ELSE /\ fail = 0
                            /\ outbox' = [outbox EXCEPT ![p] = <<>>]
                            /\ UNCHANGED <<pending_requests, blocks_to_request>>
    /\ UNCHANGED <<state, started, available_peers, pieceVars, diskVars, stop_rx,
                   trackerVars, loopVars, hostVars, restored_valid, httpVars,
                   parseVars, metaVars,
                   codecVars>>

\* The top of the loop after 300 s without a message: the task ends.
PeerInactive(p) ==
    /\ ppc[p] = "top_idle"
    /\ state # "Stopped"
    /\ Disconnect(p)
    /\ UNCHANGED <<state, started, available_peers, pieceVars, diskVars, stop_rx,
                   trackerVars, loopVars, hostVars, restored_valid, httpVars,
                   parseVars, metaVars,
                   codecVars>>

\* select_piece under the read lock of the piece map.  A panic ends the
\* task without disconnect_peer.
PeerSelect(p, piece) ==
    /\ ppc[p] = "select"
    /\ piece \in select_piece(bitfield[p])
    /\ IF piece = Panic
       THEN /\ ppc' = [ppc EXCEPT ![p] = "idle"]
            /\ ResetLocals(p)
       ELSE /\ ppc' = [ppc EXCEPT ![p] = IF piece = None THEN "recv" ELSE "start"]
            /\ current_piece' = [current_piece EXCEPT ![p] = piece]
            /\ UNCHANGED <<conn_state, bitfield, lstate, pending_requests,
                           blocks_to_request, vindex, piece_data, verify_result,
                           outbox>>
    /\ UNCHANGED <<sessVars, pieceVars, diskVars, stop_rx, trackerVars, loopVars,
                   hostVars, restored_valid, httpVars, parseVars, metaVars,
                   codecVars>>

\* start_piece under the read lock, then the send loop.
PeerStart(p, fail) ==
    /\ ppc[p] = "start"
    /\ in_progress' = start_piece(current_piece[p])
    /\ fail <= Min(Max(MAX_PENDING - Len(pending_requests[p]), 0),
                   Len(blocks_for_piece(current_piece[p])))
    /\ SendRequests(p, blocks_for_piece(current_piece[p]), fail)
    /\ ppc' = [ppc EXCEPT ![p] = "recv"]
    /\ UNCHANGED <<sessVars, have, priority_pieces, sequential, diskVars, stop_rx,
                   trackerVars, loopVars, hostVars, conn_state, bitfield, lstate,
                   current_piece, vindex, piece_data, verify_result,
                   restored_valid, httpVars, parseVars, metaVars,
                   codecVars>>

\* recv_timeout returns a message: handle_message, then the match of the
\* loop.  Choke drops the pending and queued blocks and cancels the current
\* piece; a Request is served from the files when the state read at the
\* top is Seeding or the piece is Complete (for a piece index past the
\* piece map pieces.have[index] panics: the task unwinds where it stands,
\* without disconnect_peer); a Piece is stored, and when it completes its
\* piece the task goes on to verify it.
PeerRecv(p, msg) ==
    /\ ppc[p] = "recv"
    /\ conn_state' = [conn_state EXCEPT ![p] = handle_message_state(@, msg)]
    /\ bitfield' = [bitfield EXCEPT ![p] = handle_message_bitfield(@, msg)]
    /\ CASE msg.type = "Choke" ->
              /\ pending_requests' = [pending_requests EXCEPT ![p] = <<>>]
              /\ blocks_to_request' = [blocks_to_request EXCEPT ![p] = <<>>]
              /\ current_piece' = [current_piece EXCEPT ![p] = None]
              /\ in_progress' = IF current_piece[p] = None THEN in_progress
                                ELSE cancel_piece(current_piece[p])
              /\ outbox' = [outbox EXCEPT ![p] = <<>>]
              /\ ppc' = [ppc EXCEPT ![p] = "top"]
              /\ UNCHANGED <<vindex>>
         [] msg.type = "Request" ->
              /\ IF lstate[p] # "Seeding" /\ msg.index \notin Pieces
                 THEN /\ ppc' = [ppc EXCEPT ![p] = "panicked"]
                      /\ UNCHANGED outbox
                 ELSE /\ LET from == msg.index * piece_length + msg.begin
                             can_upload == lstate[p] = "Seeding" \/ have[msg.index]
                         IN  outbox' = [outbox EXCEPT ![p] =
                                IF can_upload /\ read_data_ok(from, msg.length)
                                THEN <<[type |-> "Piece", index |-> msg.index,
                                        begin |-> msg.begin,
                                        block |-> read_data(from, msg.length)]>>
                                ELSE <<>>]
                      /\ ppc' = [ppc EXCEPT ![p] = "top"]
              /\ UNCHANGED <<pending_requests, blocks_to_request, current_piece,
                             in_progress, vindex>>
         [] msg.type = "Piece" ->
              /\ pending_requests' = [pending_requests EXCEPT ![p] =
                    SelectSeq(@, LAMBDA r : ~(r.piece = msg.index /\ r.offset = msg.begin))]
              /\ in_progress' = receive_block_map(msg.index, msg.begin, msg.block)
              /\ IF receive_block(msg.index, msg.begin, msg.block)
                 THEN /\ ppc' = [ppc EXCEPT ![p] = "verify"]
                      /\ vindex' = [vindex EXCEPT ![p] = msg.index]
                 ELSE /\ ppc' = [ppc EXCEPT ![p] = "top"]
                      /\ UNCHANGED vindex
              /\ outbox' = [outbox EXCEPT ![p] = <<>>]
              /\ UNCHANGED <<blocks_to_request, current_piece>>
         [] OTHER ->
              /\ ppc' = [ppc EXCEPT ![p] = "top"]
              /\ outbox' = [outbox EXCEPT ![p] = <<>>]
              /\ UNCHANGED <<pending_requests, blocks_to_request, current_piece,
                             in_progress, vindex>>
    /\ UNCHANGED <<sessVars, have, priority_pieces, sequential, diskVars, stop_rx,
                   trackerVars, loopVars, hostVars, lstate, piece_data,
                   verify_result, restored_valid, httpVars, parseVars, metaVars,
                   codecVars>>

\* recv_timeout times out after 30 s: a keep-alive is sent and the loop
\* continues; a failed send ends the task.
PeerRecvTimeout(p, sent) ==
    /\ ppc[p] = "recv"
    /\ IF sent
       THEN /\ ppc' = [ppc EXCEPT ![p] = "top_idle"]
            /\ outbox' = [outbox EXCEPT ![p] = <<Msg("KeepAlive")>>]
            /\ UNCHANGED <<connected_peers, conn_state, bitfield, lstate,
                           pending_requests, blocks_to_request, current_piece,
                           vindex, piece_data, verify_result>>
       ELSE Disconnect(p)
    /\ UNCHANGED <<state, started, available_peers, pieceVars, diskVars, stop_rx,
                   trackerVars, loopVars, hostVars, restored_valid, httpVars,
                   parseVars, metaVars,
                   codecVars>>

\* recv_timeout fails (end of stream, a protocol error): the task ends.
PeerRecvError(p) ==
    /\ ppc[p] = "recv"
    /\ Disconnect(p)
    /\ UNCHANGED <<state, started, available_peers, pieceVars, diskVars, stop_rx,
                   trackerVars, loopVars, hostVars, restored_valid, httpVars,
                   parseVars, metaVars,
                   codecVars>>

\* verify_and_write_piece up to write_piece, under the read lock of the
\* piece map: Ok(false) when the piece is not in progress; else the piece
\* is assembled and hashed, and a mismatch drops it from the in-progress
\* map and gives Ok(false); a block that begins past the end of the piece
\* makes the assembly panic, and the task unwinds with the piece left in
\* the in-progress map.
PeerVerify(p) ==
    /\ ppc[p] = "verify"
    /\ IF vindex[p] \notin DOMAIN in_progress
       THEN /\ verify_result' = [verify_result EXCEPT ![p] = "ok_false"]
            /\ ppc' = [ppc EXCEPT ![p] = "mark"]
            /\ UNCHANGED <<in_progress, piece_data>>
       ELSE IF AssemblyPanics(vindex[p])
       THEN /\ ppc' = [ppc EXCEPT ![p] = "panicked"]
            /\ UNCHANGED <<in_progress, piece_data, verify_result>>
       ELSE IF ~HashMatches(vindex[p])
       THEN /\ verify_result' = [verify_result EXCEPT ![p] = "ok_false"]
            /\ ppc' = [ppc EXCEPT ![p] = "mark"]
            /\ in_progress' = MapRemove(in_progress, vindex[p])
            /\ UNCHANGED piece_data
       ELSE /\ piece_data' = [piece_data EXCEPT ![p] = Assemble(vindex[p])]
            /\ ppc' = [ppc EXCEPT ![p] = "write"]
            /\ UNCHANGED <<in_progress, verify_result>>
    /\ UNCHANGED <<sessVars, have, priority_pieces, sequential, diskVars, stop_rx,
                   trackerVars, loopVars, hostVars, conn_state, bitfield, lstate,
                   pending_requests, blocks_to_request, current_piece, vindex,
                   outbox, restored_valid, httpVars, parseVars, metaVars,
                   codecVars>>

\* verify_and_write_piece from write_piece on, still under the read lock:
\* an I/O error returns Err and leaves the piece in progress; else the
\* piece is dropped from the in-progress map and the result is Ok(true).
PeerWrite(p, fail_at) ==
    /\ ppc[p] = "write"
    /\ fail_at \in {0} \cup FilesOfPiece(vindex[p])
    /\ disk' = write_piece_disk(vindex[p], piece_data[p], fail_at)
    /\ file_exists' = write_piece_files(vindex[p], fail_at)
    /\ IF write_piece_ok(vindex[p], fail_at)
       THEN /\ in_progress' = MapRemove(in_progress, vindex[p])
            /\ verify_result' = [verify_result EXCEPT ![p] = "ok_true"]
       ELSE /\ UNCHANGED in_progress
            /\ verify_result' = [verify_result EXCEPT ![p] = "err"]
    /\ piece_data' = [piece_data EXCEPT ![p] = <<>>]
    /\ ppc' = [ppc EXCEPT ![p] = "mark"]
    /\ UNCHANGED <<sessVars, have, priority_pieces, sequential, stop_rx,
                   trackerVars, loopVars, hostVars, conn_state, bitfield, lstate,
                   pending_requests, blocks_to_request, current_piece, vindex,
                   outbox, restored_valid, httpVars, parseVars, metaVars,
                   codecVars>>

\* PieceManager::mark_verified: the piece map after it.
mark_verified(piece_idx) ==
    IF piece_idx < num_pieces THEN [have EXCEPT ![piece_idx] = TRUE] ELSE have

\* A match that marks the piece whatever verify_and_write_piece returned.
MarksPieceAnyResult(result) == result \in {"ok_true", "ok_false", "err"}

\* Whether the match on the result of verify_and_write_piece marks the
\* piece: only on Ok(true).
MarksPiece(result) == result = "ok_true"

\* The match on the result: on Ok(true) the piece is marked Complete under
\* the write lock and, if that completes the torrent, the state becomes
\* Seeding; in every case the task has no current piece any more.
PeerMark(p) ==
    /\ ppc[p] = "mark"
    /\ IF MarksPiece(verify_result[p])
       THEN /\ NoReader
            /\ have' = mark_verified(vindex[p])
            /\ state' = IF \A i \in Pieces : mark_verified(vindex[p])[i]
                        THEN "Seeding" ELSE state
       ELSE UNCHANGED <<have, state>>
    /\ current_piece' = [current_piece EXCEPT ![p] = None]
    /\ vindex' = [vindex EXCEPT ![p] = None]
    /\ verify_result' = [verify_result EXCEPT ![p] = "none"]
    /\ ppc' = [ppc EXCEPT ![p] = "top"]
    /\ UNCHANGED <<started, connected_peers, available_peers, in_progress,
                   priority_pieces, sequential, diskVars, stop_rx, trackerVars,
                   loopVars, hostVars, conn_state, bitfield, lstate,
                   pending_requests, blocks_to_request, piece_data, outbox,
                   restored_valid, httpVars, parseVars, metaVars,
                   codecVars>>

----------------------------------------------------------------------------
(* The streaming read path (lib.rs: parse_range, stream_handler).           *)

\* The decimal digits.
Digits == <<"0", "1", "2", "3", "4", "5", "6", "7", "8", "9">>

IsDigit(c) == \E k \in 1..Len(Digits) : Digits[k] = c

DigitValue(c) == (CHOOSE k \in 1..Len(Digits) : Digits[k] = c) - 1

RECURSIVE DecimalValue(_)
DecimalValue(s) ==
    IF s = <<>> THEN 0
    ELSE DecimalValue(SubSeq(s, 1, Len(s) - 1)) * 10 + DigitValue(s[Len(s)])

\* str::parse::<u64>: digits after an optional "+"; None for the empty
\* string and for any other character.  (The strings followed are too short
\* to overflow 64 bits.)
ParseU64(s) ==
    LET body == IF s # <<>> /\ Head(s) = "+" THEN Tail(s) ELSE s
    IN  IF body = <<>> \/ \E k \in 1..Len(body) : ~IsDigit(body[k])
        THEN None
        ELSE DecimalValue(body)

\* str::split('-') collected: the parts between the dashes.
RECURSIVE SplitDash(_)
SplitDash(s) ==
    IF \A k \in 1..Len(s) : s[k] # "-"
    THEN <<s>>
    ELSE LET d == CHOOSE k \in 1..Len(s) : s[k] = "-" /\ \A j \in 1..(k - 1) : s[j] # "-"
         IN  <<SubSeq(s, 1, d - 1)>> \o SplitDash(SubSeq(s, d + 1, Len(s)))

BytesPrefix == <<"b", "y", "t", "e", "s", "=">>

\* u64::saturating_sub
SaturatingSub(a, b) == IF a > b THEN a - b ELSE 0

\* parse_range(range_str, file_size): <<>> for None, else <<start, end>>.
\* In the suffix form (an empty first part) start is the size less the
\* second part, saturating, and end is the second part parsed again.
parse_range(str, size) ==
    IF size = 0 THEN <<>>
    ELSE IF ~(Len(str) >= Len(BytesPrefix)
              /\ SubSeq(str, 1, Len(BytesPrefix)) = BytesPrefix) THEN <<>>
    ELSE LET parts     == SplitDash(SubSeq(str, Len(BytesPrefix) + 1, Len(str)))
             last_byte == size - 1
         IN  IF Len(parts) # 2 THEN <<>>
             ELSE LET start == IF parts[1] = <<>>
                               THEN IF ParseU64(parts[2]) = None THEN None
                                    ELSE SaturatingSub(size, ParseU64(parts[2]))
                               ELSE ParseU64(parts[1])
                      end   == IF parts[2] = <<>> THEN last_byte
                               ELSE ParseU64(parts[2])
                  IN  IF start = None \/ end = None THEN <<>>
                      ELSE IF start > end \/ start >= size THEN <<>>
                      ELSE <<start, Min(end, last_byte)>>

\* A call of parse_range on the Range header of a request.
ParseRange ==
    /\ ~parsed
    /\ range_out' = parse_range(range_str, file_size)
    /\ parsed' = TRUE
    /\ UNCHANGED <<sessVars, pieceVars, diskVars, stop_rx, trackerVars, loopVars,
                   hostVars, peerVars, restored_valid, httpVars, range_str,
                   file_size, metaVars,
                   codecVars>>

\* stream_handler: data_start, the global offset of the first byte served
\* of file f under the parsed range r (<<>>: no Range, the whole file).
DataStart(f, r) == FileOffset(f) + (IF r = <<>> THEN 0 ELSE r[1])

\* stream_handler: content_length = end - start + 1.
ContentLength(f, r) ==
    IF r = <<>> THEN FileLength(f) ELSE r[2] - r[1] + 1

\* stream_handler up to the availability check, under the read lock of the
\* piece map: when the range is not available, the pieces it needs are
\* computed and the lock is dropped.
GetCheck(f, r) ==
    /\ in_sessions
    /\ get_pc = "idle"
    /\ FileLength(f) > 0
    /\ get_file' = f
    /\ get_range' = r
    /\ response' = [status |-> 0, body |-> <<>>]
    /\ IF ~is_range_available(DataStart(f, r), ContentLength(f, r))
       THEN /\ get_needed' = pieces_for_range(DataStart(f, r), ContentLength(f, r))
            /\ get_pc' = "prioritize"
       ELSE /\ get_needed' = {}
            /\ get_pc' = "read"
    /\ UNCHANGED <<sessVars, pieceVars, diskVars, stop_rx, trackerVars, loopVars,
                   hostVars, peerVars, restored_valid, parseVars, metaVars,
                   codecVars>>

\* stream_handler, the range not available: prioritize_pieces(needed)
\* (set_priority_pieces: the set is cleared and refilled), then 202.
GetPrioritize ==
    /\ get_pc = "prioritize"
    /\ priority_pieces' = get_needed
    /\ response' = [status |-> 202, body |-> <<>>]
    /\ get_pc' = "idle"
    /\ UNCHANGED <<sessVars, have, in_progress, sequential, diskVars, stop_rx,
                   trackerVars, loopVars, hostVars, peerVars, restored_valid,
                   get_file, get_range, get_needed, parseVars, metaVars,
                   codecVars>>

\* stream_handler, the range available: read_data under the read lock;
\* 206 with a Range header, 200 without, 500 on a read error.
GetRead ==
    /\ get_pc = "read"
    /\ response' =
          IF read_data_ok(DataStart(get_file, get_range),
                          ContentLength(get_file, get_range))
          THEN [status |-> IF get_range # <<>> THEN 206 ELSE 200,
                body |-> read_data(DataStart(get_file, get_range),
                                   ContentLength(get_file, get_range))]
          ELSE [status |-> 500, body |-> <<>>]
    /\ get_pc' = "idle"
    /\ UNCHANGED <<sessVars, pieceVars, diskVars, stop_rx, trackerVars, loopVars,
                   hostVars, peerVars, restored_valid, get_file, get_range,
                   get_needed, parseVars, metaVars,
                   codecVars>>

----------------------------------------------------------------------------
(* parse_range on its own: every short header value over a few characters,  *)
(* with and without the "bytes=" prefix, against every small file size.     *)

RangeChars == {"0", "1", "2", "5", "9", "-", "x"}

RangeBodies == UNION {[1..n -> RangeChars] : n \in 0..MaxRangeLen}

InitParse ==
    /\ InitSession(LayoutTwoTens, {}, {})
    /\ range_str \in RangeBodies \cup {BytesPrefix \o b : b \in RangeBodies}
    /\ file_size \in 0..MaxFileSize
    /\ range_out = <<>>
    /\ parsed = FALSE
    /\ CodecIdle

NextParse == ParseRange

SpecParse == InitParse /\ [][NextParse]_vars

\* The decimal numeral of n.
RECURSIVE Decimal(_)
Decimal(n) ==
    IF n < 10 THEN <<Digits[n + 1]>>
    ELSE Decimal(n \div 10) \o <<Digits[(n % 10) + 1]>>

\* C9: once parse_range has returned for a file of size S > 0, a header
\* "bytes=a-b" with a <= b and a < S gave (a, min(b, S-1)), a header
\* "bytes=a-" with a < S gave (a, S-1), and a header "bytes=-k" with k >= 1
\* gave the last k bytes, (max(S-k, 0), S-1).
C9_ParseRangeForms ==
    (parsed /\ file_size > 0) =>
        \A a \in 0..MaxNumber, b \in 0..MaxNumber :
            /\ (/\ range_str = BytesPrefix \o Decimal(a) \o <<"-">> \o Decimal(b)
                /\ a <= b
                /\ a < file_size)
               => range_out = <<a, Min(b, file_size - 1)>>
            /\ (/\ range_str = BytesPrefix \o Decimal(a) \o <<"-">>
                /\ a < file_size)
               => range_out = <<a, file_size - 1>>
            /\ (/\ range_str = BytesPrefix \o <<"-">> \o Decimal(b)
                /\ b >= 1)
               => range_out = <<Max(file_size - b, 0), file_size - 1>>

\* C9: a suffix request for the last byte of a three-byte file was refused.
C9_SuffixRefused ==
    /\ parsed
    /\ file_size = 3
    /\ range_str = BytesPrefix \o <<"-", "1">>
    /\ range_out = <<>>

----------------------------------------------------------------------------
(* One peer connection against every message the remote peer can send.     *)

\* The steps of the task of endpoint p, the remote peer sending any
\* message of msgs; sends and writes may fail.
PeerTask(p, msgs) ==
    \/ PeerConnectFail(p)
    \/ \E sent \in BOOLEAN : PeerBegin(p, sent)
    \/ \E fail \in 0..MAX_PENDING : PeerTop(p, fail)
    \/ PeerInactive(p)
    \/ \E piece \in Pieces \cup {None} : PeerSelect(p, piece)
    \/ \E fail \in 0..MAX_PENDING : PeerStart(p, fail)
    \/ \E msg \in msgs : PeerRecv(p, msg)
    \/ \E sent \in BOOLEAN : PeerRecvTimeout(p, sent)
    \/ PeerRecvError(p)
    \/ PeerVerify(p)
    \/ \E fail_at \in {0} \cup Files : PeerWrite(p, fail_at)
    \/ PeerMark(p)

InitPeer ==
    /\ InitSession(LayoutTwoSixes, {}, {})
    /\ ParseIdle
    /\ CodecIdle

NextPeer ==
    \/ Start
    \/ SessionsInsert
    \/ Pause
    \/ ResumeRead
    \/ ResumeWrite
    \/ ListenerBind(TRUE)
    \/ ListenerAccept(1)
    \/ PeerTask(1, PeerMessages)

SpecPeer == InitPeer /\ [][NextPeer]_vars

\* C2: a peer task whose connection has peer_choking set has emitted no
\* Request in its latest step: Requests leave only while the peer does not
\* choke us.
C2_NoRequestWhileChoked ==
    \A p \in Peers :
        conn_state[p].peer_choking =>
            \A k \in 1..Len(outbox[p]) : outbox[p][k].type # "Request"

\* C2: a task that downloaded a piece, was choked again, and has passed the
\* top of its loop with a needed piece on offer, waits without a Request.
C2_ChokedAgainAndSilent ==
    \E p \in Peers :
        /\ ppc[p] = "recv"
        /\ conn_state[p].peer_choking
        /\ lstate[p] = "Downloading"
        /\ \E i \in Pieces : have[i]
        /\ \E i \in bitfield[p] : ~have[i] /\ i \notin DOMAIN in_progress
        /\ outbox[p] = <<>>

----------------------------------------------------------------------------
(* Two peer connections at once; each remote peer offers every piece,      *)
(* chokes and unchokes, and answers the Requests it was sent with true or   *)
(* with corrupt blocks; sends and file writes may fail.                     *)

\* The Piece messages that answer a pending Request of the task of p.
Answers(p) ==
    {m \in PieceMessages :
        \E k \in 1..Len(pending_requests[p]) :
            /\ pending_requests[p][k].piece = m.index
            /\ pending_requests[p][k].offset = m.begin}

SwarmMessages(p) ==
    {Msg("Unchoke"), Msg("Choke"), [type |-> "Bitfield", bitfield |-> Pieces]}
    \cup Answers(p)

InitSwarm ==
    /\ InitSession(LayoutTwoAndSix, {}, {})
    /\ ParseIdle
    /\ CodecIdle

NextSwarm ==
    \/ Start
    \/ SessionsInsert
    \/ ListenerBind(TRUE)
    \/ \E addr \in Peers : ListenerAccept(addr)
    \/ \E p \in Peers : PeerTask(p, SwarmMessages(p))

SpecSwarm == InitSwarm /\ [][NextSwarm]_vars

\* C1: in every step in which a piece i becomes Complete, a peer task is
\* at the match on the result of verify_and_write_piece(i), that result is
\* Ok(true), and the bytes of piece i in the files hash to its digest; no
\* piece becomes Complete on a hash mismatch or a write error.
C1_CompleteOnlyAfterOkTrue ==
    [][\A i \in Pieces :
          (~have[i] /\ have'[i]) =>
              \E p \in Peers :
                  /\ ppc[p] = "mark"
                  /\ vindex[p] = i
                  /\ verify_result[p] = "ok_true"
                  /\ PieceOnDiskValid(i)]_vars

\* C1: one piece is Complete while a task stands at the match with a write
\* error for the other piece, whose bytes are not in the files.
C1_MarkedBesideFailure ==
    \E i \in Pieces, p \in Peers :
        /\ have[i]
        /\ ppc[p] = "mark"
        /\ verify_result[p] = "err"
        /\ ~have[vindex[p]]
        /\ ~PieceOnDiskValid(vindex[p])

----------------------------------------------------------------------------
(* The life of a session: the host's commands, the queue manager, the four  *)
(* session tasks and peer tasks that download from well-behaved peers.      *)

\* The true blocks among the answers to the pending Requests of p.
GoodAnswers(p) == {m \in Answers(p) : \A k \in 1..Len(m.block) : m.block[k] # 9}

LifeMessages(p) ==
    {Msg("Unchoke"), [type |-> "Bitfield", bitfield |-> Pieces]} \cup GoodAnswers(p)

\* The steps of the task of endpoint p when no send and no write fails.
PeerTaskSound(p, msgs) ==
    \/ PeerBegin(p, TRUE)
    \/ PeerTop(p, 0)
    \/ \E piece \in Pieces \cup {None} : PeerSelect(p, piece)
    \/ PeerStart(p, 0)
    \/ \E msg \in msgs : PeerRecv(p, msg)
    \/ PeerRecvError(p)
    \/ PeerVerify(p)
    \/ PeerWrite(p, 0)
    \/ PeerMark(p)

InitLife ==
    /\ InitSession(LayoutTwoAndSix, {}, {})
    /\ ParseIdle
    /\ CodecIdle

\* The tracker loop of a session that downloads from the one peer the
\* tracker names and is paused, resumed and stopped by the host.
NextTracker ==
    \/ Start
    \/ SessionsInsert
    \/ Stop
    \/ Pause
    \/ ResumeRead
    \/ ResumeWrite
    \/ TrackerSubscribe
    \/ \E peers \in {<<>>, <<1>>} : TrackerTick(peers)
    \/ TrackerStop
    \/ TrackerAnnounceStopped
    \/ ConnectorSubscribe
    \/ ConnectorTick
    \/ ConnectorStop
    \/ PeerTaskSound(1, LifeMessages(1))

SpecTracker == InitLife /\ [][NextTracker]_vars

\* The number of announces with the event ev in the tracker log.
Announced(ev) == Cardinality({k \in 1..Len(tracker_log) : tracker_log[k] = ev})

\* C3: when the tracker loop of a session whose pieces all became Complete
\* has ended, the session has announced event=completed exactly once.
C3_ExactlyOneCompleted ==
    (is_complete /\ tracker_pc = "done") => Announced("Completed") = 1

\* C3: a session downloaded every piece and went to Seeding, was stopped,
\* and its tracker loop ended having announced started and stopped only.
C3_CompletedNeverAnnounced ==
    /\ is_complete
    /\ tracker_pc = "done"
    /\ tracker_log = <<"Started", "Stopped">>

\* C6: the tracker log is one started, then re-announces with no event,
\* then, once the loop has ended, one stopped as its last entry; stopped is
\* never announced without a started before it.
C6_StartedNoneStopped ==
    /\ \A k \in 1..Len(tracker_log) :
          /\ (k = 1) => tracker_log[k] = "Started"
          /\ (k > 1) => tracker_log[k] \in {"None", "Stopped"}
          /\ (tracker_log[k] = "Stopped") => (k = Len(tracker_log) /\ tracker_pc = "done")
    /\ (tracker_pc = "done") =>
          (tracker_log # <<>> /\ tracker_log[Len(tracker_log)] = "Stopped")

\* C6: the loop of a session that was Paused at its only tick has ended
\* with stopped as its only announce.
C6_StoppedWithoutStarted ==
    /\ tracker_pc = "done"
    /\ tracker_log = <<"Stopped">>

----------------------------------------------------------------------------
(* Resume and recheck by the host while a peer task downloads.              *)

NextResume ==
    \/ Start
    \/ SessionsInsert
    \/ Pause
    \/ ResumeRead
    \/ ResumeWrite
    \/ RecheckBegin
    \/ RecheckVerify
    \/ RecheckRead
    \/ RecheckFinish
    \/ ListenerBind(TRUE)
    \/ ListenerAccept(1)
    \/ PeerTaskSound(1, LifeMessages(1))

SpecResume == InitLife /\ [][NextResume]_vars

\* C4: a session whose pieces are all Complete, with no resume and no
\* recheck in flight, and neither Paused nor Stopped, is Seeding.
C4_CompleteIsSeeding ==
    (/\ is_complete
     /\ resume_pc = "idle"
     /\ recheck_pc = "idle"
     /\ state \notin {"Paused", "Stopped"})
    => state = "Seeding"

\* C4: every piece is Complete, nothing is in flight, and the session is
\* Downloading.
C4_CompleteAndDownloading ==
    /\ is_complete
    /\ resume_pc = "idle"
    /\ recheck_pc = "idle"
    /\ \A p \in Peers : ppc[p] \in {"idle", "top", "recv"}
    /\ state = "Downloading"

----------------------------------------------------------------------------
(* Stopping a session: the four session tasks and a peer task whose remote  *)
(* peer stays silent, under a scheduler that runs every task that can take  *)
(* a step (tokio runs every ready task; recv_timeout returns within 30 s).  *)

\* The steps of the task of endpoint p with a silent remote peer.
PeerTaskIdle(p) ==
    \/ PeerBegin(p, TRUE)
    \/ PeerTop(p, 0)
    \/ PeerRecvTimeout(p, TRUE)
    \/ PeerInactive(p)

NextStop ==
    \/ Start
    \/ SessionsInsert
    \/ Stop
    \/ ResumeRead
    \/ ResumeWrite
    \/ ProcessQueue
    \/ TrackerSubscribe
    \/ TrackerTick(<<>>)
    \/ TrackerStop
    \/ TrackerAnnounceStopped
    \/ ConnectorSubscribe
    \/ ConnectorStop
    \/ ListenerBind(TRUE)
    \/ ListenerAccept(1)
    \/ ListenerStop
    \/ StatsSubscribe
    \/ StatsTick
    \/ StatsStop
    \/ PeerTaskIdle(1)

\* Every task that can take a step does: a spawned task runs to its loop,
\* a task with a stop message in its receiver takes the stop branch, the
\* tracker loop goes on to its last announce, and a peer task whose
\* recv_timeout has returned goes back to the top of its loop.
FairStop ==
    /\ WF_vars(TrackerSubscribe)
    /\ WF_vars(TrackerStop)
    /\ WF_vars(TrackerAnnounceStopped)
    /\ WF_vars(ConnectorSubscribe)
    /\ WF_vars(ConnectorStop)
    /\ WF_vars(ListenerBind(TRUE))
    /\ WF_vars(ListenerStop)
    /\ WF_vars(StatsSubscribe)
    /\ WF_vars(StatsStop)
    /\ WF_vars(PeerBegin(1, TRUE))
    /\ WF_vars(PeerTop(1, 0))
    /\ WF_vars(PeerRecvTimeout(1, TRUE))

SpecStop == InitLife /\ [][NextStop]_vars /\ FairStop

\* Every task of the session has ended.
TasksEnded ==
    /\ tracker_pc = "done"
    /\ connector_pc = "done"
    /\ listener_pc = "done"
    /\ stats_pc = "done"
    /\ \A p \in Peers : ppc[p] = "idle"

\* C5: whenever a started session is Stopped (stop() has just set the
\* state), every task of the session has ended at some later point.
C5_StopEndsEveryTask ==
    (started /\ state = "Stopped") ~> TasksEnded

\* C5: stop() was called on a started session whose tasks had not all
\* subscribed, and a task is in its loop with an empty receiver.
C5_StopMissed ==
    /\ started
    /\ state = "Stopped"
    /\ \E t \in SessionTasks : stop_rx[t] = "empty"
    /\ tracker_pc = "loop"

----------------------------------------------------------------------------
(* Streaming reads while a peer task downloads: two files of 10, pieces of *)
(* 8; GETs over either file with the ranges parse_range can return.         *)

\* Values parse_range returns for a file of the given size: None, or
\* (start, end) with start <= end < size; the ranges followed start at the
\* head of the file or in its middle and end in its middle or at its end.
ParsedRanges(size) ==
    {<<>>} \cup {r \in {0, 5} \X {4, size - 1} : r[1] <= r[2] /\ r[2] < size}

InitRange ==
    /\ InitSession(LayoutTwoTens, {}, {})
    /\ ParseIdle
    /\ CodecIdle

NextRange ==
    \/ Start
    \/ SessionsInsert
    \/ ListenerBind(TRUE)
    \/ ListenerAccept(1)
    \/ PeerTaskSound(1, LifeMessages(1))
    \/ \E f \in Files : \E r \in ParsedRanges(FileLength(f)) : GetCheck(f, r)
    \/ GetPrioritize
    \/ GetRead

SpecRange == InitRange /\ [][NextRange]_vars

\* The pieces that overlap the global byte range [offset, offset + length).
Covering(offset, length) ==
    {i \in Pieces : /\ i * piece_length < offset + length
                    /\ i * piece_length + piece_size(i) > offset}

\* C7: for every range of at least one byte within the torrent,
\* is_range_available is false exactly when a piece overlapping the range
\* is not Complete, and read_data returns bytes only when every piece
\* overlapping the range is Complete.
C7_RefusesIffNotComplete ==
    \A offset \in Offsets :
        \A length \in 1..(total_size - offset) :
            /\ is_range_available(offset, length)
                  <=> (\A i \in Covering(offset, length) : have[i])
            /\ read_data_ok(offset, length)
                  => (\A i \in Covering(offset, length) : have[i])

\* C7: piece 0 is Complete, piece 1 is not, and read_data returns the two
\* bytes of piece 1 that lie in the first file, which the write of piece 0
\* created at its full length.
C7_ReadsMissingPiece ==
    /\ have[0]
    /\ ~have[1]
    /\ 1 \in Covering(8, 2)
    /\ read_data_ok(8, 2)
    /\ ~is_range_available(8, 2)

\* C8: a GET is sent on to prioritise exactly when a piece covering its
\* range is not Complete; it then returns 202 and, at that moment, every
\* covering piece that is not Complete is in the priority set; a GET whose
\* covering pieces are all Complete returns 200 or 206 with the true bytes
\* of the range.
C8_GetPrioritisesOrServes ==
    [][/\ (get_pc = "idle" /\ get_pc' # "idle") =>
             (get_pc' = "prioritize" <=>
                 \E i \in Covering(DataStart(get_file', get_range'),
                                   ContentLength(get_file', get_range')) : ~have[i])
       /\ (get_pc = "prioritize" /\ get_pc' = "idle") =>
             /\ response'.status = 202
             /\ \A i \in Covering(DataStart(get_file, get_range),
                                  ContentLength(get_file, get_range)) :
                    ~have'[i] => i \in priority_pieces'
       /\ (get_pc = "read" /\ get_pc' = "idle") =>
             /\ response'.status \in {200, 206}
             /\ response'.body = ContentRange(DataStart(get_file, get_range),
                                              ContentLength(get_file, get_range))
      ]_vars

\* C8: the scenario of the two files of 10 with pieces of 8: a GET on the
\* first file whose Range 5-14 was parsed to (5, 9), with piece 0 Complete
\* and piece 1 not, has returned 202 and piece 1 is in the priority set.
C8_BoundaryRangeBuffered ==
    /\ get_pc = "idle"
    /\ get_file = 1
    /\ get_range = <<5, 9>>
    /\ have[0]
    /\ ~have[1]
    /\ response.status = 202
    /\ 1 \in priority_pieces

----------------------------------------------------------------------------
(* A restored torrent: restore_torrent creates the session over a download *)
(* directory whose files exist, some pieces of them not yet written, and    *)
(* starts it or not; the host may resume and recheck it.                    *)

InitRestore ==
    /\ \E holes \in SUBSET (0..1) :
          InitSession(LayoutTwoAndSix, {1, 2}, holes)
    /\ ParseIdle
    /\ CodecIdle

NextRestore ==
    \/ Start
    \/ SessionsInsert
    \/ ResumeRead
    \/ ResumeWrite
    \/ RecheckBegin
    \/ RecheckVerify
    \/ RecheckRead
    \/ RecheckFinish
    \/ ListenerBind(TRUE)
    \/ ListenerAccept(1)
    \/ PeerTaskSound(1, LifeMessages(1))

SpecRestore == InitRestore /\ [][NextRestore]_vars

\* C10: no peer task of a restored session sends a Request for a piece
\* whose bytes on disk hashed to its digest when the session was created.
C10_VerifiedNotRequested ==
    \A p \in Peers :
        \A k \in 1..Len(outbox[p]) :
            outbox[p][k].type = "Request" => outbox[p][k].index \notin restored_valid

\* C10: a Request has left for a piece that is valid on disk since the
\* restore and is not Complete in the piece map.
C10_VerifiedRequestedAgain ==
    \E p \in Peers :
        \E k \in 1..Len(outbox[p]) :
            /\ outbox[p][k].type = "Request"
            /\ outbox[p][k].index \in restored_valid
            /\ PieceOnDiskValid(outbox[p][k].index)
            /\ ~have[outbox[p][k].index]

----------------------------------------------------------------------------
(* Force-recheck over any download directory: each file present or not,    *)
(* each piece written or a hole, while a peer task downloads and writes     *)
(* pieces (a write may fail at any file).                                   *)

\* The steps of the task of endpoint p when no send fails and the write of
\* a piece may fail.
PeerTaskDisk(p, msgs) ==
    \/ PeerBegin(p, TRUE)
    \/ PeerTop(p, 0)
    \/ \E piece \in Pieces \cup {None} : PeerSelect(p, piece)
    \/ PeerStart(p, 0)
    \/ \E msg \in msgs : PeerRecv(p, msg)
    \/ PeerRecvError(p)
    \/ PeerVerify(p)
    \/ \E fail_at \in {0} \cup Files : PeerWrite(p, fail_at)
    \/ PeerMark(p)

InitRecheck ==
    /\ \E fs \in SUBSET {1, 2}, holes \in SUBSET (0..1) :
          InitSession(LayoutTwoAndSix, fs, holes)
    /\ ParseIdle
    /\ CodecIdle

NextRecheck ==
    \/ Start
    \/ SessionsInsert
    \/ Pause
    \/ RecheckBegin
    \/ RecheckVerify
    \/ RecheckRead
    \/ RecheckFinish
    \/ ListenerBind(TRUE)
    \/ ListenerAccept(1)
    \/ PeerTaskDisk(1, LifeMessages(1))

SpecRecheck == InitRecheck /\ [][NextRecheck]_vars

\* Whether every file holding a byte of piece i exists and every byte of
\* the piece on disk is the byte of the torrent's content.
OnDiskIntact(i) ==
    /\ \A f \in FilesOfPiece(i) : file_exists[f]
    /\ \A j \in Offsets :
          (i * piece_length <= j /\ j < i * piece_length + piece_size(i))
              => disk[j] = Content(j)

\* C11: in the step in which verify_all runs, a piece ends Complete exactly
\* if all the files it lies in exist and its bytes on disk are the true
\* content (a missing file or a hole leaves it Missing), and running
\* verify_all once more over the disk it leaves gives the same piece map.
C11_RecheckMatchesDisk ==
    [][(recheck_pc = "verify" /\ recheck_pc' = "read") =>
          /\ \A i \in Pieces : have'[i] <=> OnDiskIntact(i)'
          /\ disk' = disk
          /\ verify_all' = have'
      ]_vars

\* C11: verify_all has run over a directory whose first file is missing
\* and whose second file holds piece 1: piece 1 is Complete and piece 0,
\* which lies in both files, is Missing.
C11_RecheckedWithMissingFile ==
    /\ recheck_pc = "read"
    /\ ~file_exists[1]
    /\ file_exists[2]
    /\ have[1]
    /\ ~have[0]

\* C12: in the step in which a peer task handles the Err of the write of a
\* hash-verified piece, the session state becomes Error and the piece is
\* not Complete afterwards.
C12_WriteErrorIsSessionError ==
    [][\A p \in Peers :
          (ppc[p] = "mark" /\ verify_result[p] = "err" /\ ppc'[p] = "top") =>
              /\ state' = "Error"
              /\ ~have'[vindex[p]]
      ]_vars

\* C12: a peer task is back at the top of its loop after the write of a
\* fully received piece with the right hash failed (the piece is still in
\* the in-progress map and not Complete), and the session is Downloading.
C12_WriteFailedStillDownloading ==
    \E p \in Peers :
        /\ ppc[p] = "top"
        /\ current_piece[p] = None
        /\ state = "Downloading"
        /\ \E i \in DOMAIN in_progress :
              /\ in_progress[i].received_blocks = in_progress[i].expected_blocks
              /\ HashMatches(i)
              /\ ~have[i]

----------------------------------------------------------------------------
(* Remote peers that break the protocol: besides the messages of a sound   *)
(* peer each may send a Request for a piece index past the last piece, a    *)
(* Piece block that begins past the end of its piece, and a Piece block     *)
(* longer than its piece.  (An oversize frame and an unknown message id     *)
(* make recv return Err: PeerRecvError.)  The violating peer has a sibling  *)
(* whose remote peer stays silent.                                          *)

InvalidRequests ==
    {[type |-> "Request", index |-> num_pieces, begin |-> 0, length |-> BLOCK_SIZE]}

\* For each piece a block that begins one past its end.
OverrunBlocks ==
    {[type |-> "Piece", index |-> i, begin |-> piece_size(i) + 1, block |-> <<9>>] :
        i \in Pieces}

\* For each piece the true first block with a byte too many.
OverlongBlocks ==
    {[type |-> "Piece", index |-> i, begin |-> 0,
      block |-> GoodBlock(blocks_for_piece(i)[1]) \o <<9>>] : i \in Pieces}

ViolationMessages == InvalidRequests \cup OverrunBlocks \cup OverlongBlocks

InitViolation ==
    /\ InitSession(LayoutTwoAndSix, {}, {})
    /\ ParseIdle
    /\ CodecIdle

NextViolation ==
    \/ Start
    \/ SessionsInsert
    \/ ListenerBind(TRUE)
    \/ \E addr \in Peers : ListenerAccept(addr)
    \/ PeerTaskSound(1, LifeMessages(1) \cup ViolationMessages)
    \/ PeerTaskIdle(2)

SpecViolation == InitViolation /\ [][NextViolation]_vars

\* C13: in every step in which a peer task receives a violating message or
\* a recv error, that task ends and its endpoint leaves the connected set,
\* while the session state, the piece map and the other peer tasks stay as
\* they are.
C13_ViolationEndsPeerOnly ==
    [][\A p \in Peers :
          ((\E msg \in ViolationMessages : PeerRecv(p, msg)) \/ PeerRecvError(p)) =>
              /\ ppc'[p] = "idle"
              /\ p \notin connected_peers'
              /\ state' = state
              /\ have' = have
              /\ \A q \in Peers \ {p} : ppc'[q] = ppc[q]
      ]_vars

\* C13: the task of a peer has ended in a panic and the peer is still in
\* the connected set.
C13_PanickedStillConnected ==
    \E p \in Peers :
        /\ ppc[p] = "panicked"
        /\ p \in connected_peers

----------------------------------------------------------------------------
(* The cap on open peers, at the scale of a cap of PeerCap and two          *)
(* endpoints: the tracker names endpoint 1, which the connector dials, and  *)
(* endpoint 2 connects to the listener; the remote peers stay silent or     *)
(* hang up.  (One endpoint is dialled, so the connector's semaphore never   *)
(* runs out.)                                                               *)

InitCap ==
    /\ InitSession(LayoutTwoAndSix, {}, {})
    /\ ParseIdle
    /\ CodecIdle

NextCap ==
    \/ Start
    \/ SessionsInsert
    \/ TrackerSubscribe
    \/ \E peers \in {<<>>, <<1>>} : TrackerTick(peers)
    \/ ConnectorSubscribe
    \/ ConnectorTickUnder(PeerCap)
    \/ ListenerBind(TRUE)
    \/ ListenerAcceptUnder(PeerCap, 2)
    \/ \E p \in Peers : PeerConnectFail(p)
    \/ \E p \in Peers : PeerTaskIdle(p)
    \/ \E p \in Peers : PeerRecvError(p)

SpecCap == InitCap /\ [][NextCap]_vars

\* The endpoints whose peer session is live: the task is in
\* run_peer_session, between the insert into the connected set and
\* disconnect_peer.
LiveSessions == {p \in Peers : ppc[p] \notin {"idle", "connect", "panicked"}}

\* C14: the number of live peer sessions, and with it the size of the
\* connected set, never exceeds the cap.
C14_LiveSessionsUnderCap ==
    /\ Cardinality(LiveSessions) <= PeerCap
    /\ Cardinality(connected_peers) <= PeerCap

\* C14: the session dialled by the connector and the session accepted by
\* the listener are live at once, both in the connected set, above the cap.
C14_BothSessionsLive ==
    /\ LiveSessions = {1, 2}
    /\ connected_peers = {1, 2}
    /\ Cardinality(connected_peers) > PeerCap

----------------------------------------------------------------------------
(* The handshake of one connection (peer.rs: PeerConnection::connect and   *)
(* ::accept; session.rs: handle_peer_connection, handle_incoming_peer).     *)
(* hs_wire is the log of our reads and writes on the stream.                *)

\* peer.rs: const PROTOCOL.
PROTOCOL == "BitTorrent protocol"

\* The session's info-digest and another one.
InfoHashes == {"this torrent", "another torrent"}

OurInfoHash == "this torrent"

\* The 68 bytes a remote peer sends as its handshake, by field: the length
\* byte, the 19 bytes after it, the info-digest and the peer id; complete
\* is false when the stream ends before 68 bytes have come.
RemoteHandshakes ==
    [pstrlen : {18, 19}, pstr : {PROTOCOL, "BitTorrent protocoI"},
     info_hash : InfoHashes, peer_id : {"A", "B"}, complete : BOOLEAN]

\* send_handshake: the handshake we write.
OurHandshake ==
    [pstrlen |-> 19, pstr |-> PROTOCOL, info_hash |-> OurInfoHash,
     peer_id |-> "us", complete |-> TRUE]

\* A receive_handshake that checks the protocol literal only.
HandshakeAcceptedAnyDigest(h, expected_info_hash) ==
    /\ h.complete
    /\ ~(h.pstrlen # 19 \/ h.pstr # PROTOCOL)

\* receive_handshake: Ok when 68 bytes were read, the literal is PROTOCOL
\* and the info-digest is the expected one.
HandshakeAccepted(h, expected_info_hash) ==
    /\ h.complete
    /\ ~(h.pstrlen # 19 \/ h.pstr # PROTOCOL)
    /\ h.info_hash = expected_info_hash

\* handle_peer_connection, PeerConnection::connect: the TCP connection is
\* made or fails (or times out).
HsConnect(remote, ok) ==
    /\ hs_pc = "idle"
    /\ hs_dir' = "out"
    /\ hs_remote' = remote
    /\ hs_pc' = IF ok THEN "send" ELSE "err"
    /\ UNCHANGED <<hs_wire, metaVars, sessVars, pieceVars, diskVars, stop_rx,
                   trackerVars, loopVars, hostVars, peerVars, restored_valid,
                   httpVars, parseVars, auxVars, bencodeVars, torrentVars, magnetVars>>

\* handle_incoming_peer, PeerConnection::accept: an accepted stream.
HsAccept(remote) ==
    /\ hs_pc = "idle"
    /\ hs_dir' = "in"
    /\ hs_remote' = remote
    /\ hs_pc' = "receive"
    /\ UNCHANGED <<hs_wire, metaVars, sessVars, pieceVars, diskVars, stop_rx,
                   trackerVars, loopVars, hostVars, peerVars, restored_valid,
                   httpVars, parseVars, auxVars, bencodeVars, torrentVars, magnetVars>>

\* send_handshake: on an outgoing connection the receive follows, on an
\* incoming one the handshake is done; a failed write is an Err.
HsSend(ok) ==
    /\ hs_pc = "send"
    /\ hs_wire' = IF ok THEN Append(hs_wire, [op |-> "write", data |-> OurHandshake])
                  ELSE hs_wire
    /\ hs_pc' = IF ~ok THEN "err"
                ELSE IF hs_dir = "out" THEN "receive" ELSE "ok"
    /\ UNCHANGED <<hs_dir, hs_remote, metaVars, sessVars, pieceVars, diskVars,
                   stop_rx, trackerVars, loopVars, hostVars, peerVars,
                   restored_valid, httpVars, parseVars, auxVars, bencodeVars, torrentVars,
                   magnetVars>>

\* receive_handshake: on an incoming connection the send follows, on an
\* outgoing one the handshake is done.
HsReceive ==
    /\ hs_pc = "receive"
    /\ hs_wire' = Append(hs_wire, [op |-> "read", data |-> hs_remote])
    /\ hs_pc' = IF ~HandshakeAccepted(hs_remote, OurInfoHash) THEN "err"
                ELSE IF hs_dir = "in" THEN "send" ELSE "ok"
    /\ UNCHANGED <<hs_dir, hs_remote, metaVars, sessVars, pieceVars, diskVars,
                   stop_rx, trackerVars, loopVars, hostVars, peerVars,
                   restored_valid, httpVars, parseVars, auxVars, bencodeVars, torrentVars,
                   magnetVars>>

\* The match on the result: Ok(conn) goes on to run_peer_session, Err is
\* logged and the task ends.
HsResult ==
    /\ hs_pc \in {"ok", "err"}
    /\ hs_pc' = IF hs_pc = "ok" THEN "session" ELSE "closed"
    /\ UNCHANGED <<hs_dir, hs_remote, hs_wire, metaVars, sessVars, pieceVars,
                   diskVars, stop_rx, trackerVars, loopVars, hostVars, peerVars,
                   restored_valid, httpVars, parseVars, auxVars, bencodeVars, torrentVars,
                   magnetVars>>

InitShake ==
    /\ InitSession(LayoutTwoAndSix, {}, {})
    /\ ParseIdle
    /\ CodecIdle
    /\ AuxIdle

NextShake ==
    \/ \E remote \in RemoteHandshakes, ok \in BOOLEAN : HsConnect(remote, ok)
    \/ \E remote \in RemoteHandshakes : HsAccept(remote)
    \/ \E ok \in BOOLEAN : HsSend(ok)
    \/ HsReceive
    \/ HsResult

SpecShake == InitShake /\ [][NextShake]_vars

\* C15: a connection is in the message phase only if the handshake read
\* from the peer carried the literal 'BitTorrent protocol' and the
\* session's info-digest; on an incoming connection nothing is written
\* before that handshake has been read and found valid; on an outgoing
\* connection our handshake is written before anything is read.
C15_HandshakeBeforeMessages ==
    /\ hs_pc = "session" =>
          /\ \E k \in 1..Len(hs_wire) : hs_wire[k] = [op |-> "read", data |-> hs_remote]
          /\ hs_remote.complete
          /\ hs_remote.pstrlen = 19
          /\ hs_remote.pstr = "BitTorrent protocol"
          /\ hs_remote.info_hash = OurInfoHash
    /\ (hs_dir = "in" /\ \E k \in 1..Len(hs_wire) : hs_wire[k].op = "write") =>
          /\ hs_wire[1].op = "read"
          /\ hs_remote.pstr = "BitTorrent protocol"
          /\ hs_remote.pstrlen = 19
          /\ hs_remote.info_hash = OurInfoHash
    /\ (hs_dir = "out" /\ \E k \in 1..Len(hs_wire) : hs_wire[k].op = "read") =>
          hs_wire[1].op = "write"

\* C15: an incoming connection has entered the message phase after its
\* handshake was read and ours was written, in that order.
C15_IncomingEntered ==
    /\ hs_pc = "session"
    /\ hs_dir = "in"
    /\ Len(hs_wire) = 2
    /\ hs_wire[1].op = "read"
    /\ hs_wire[2].op = "write"

----------------------------------------------------------------------------
(* Bencode (bencode.rs).  Bytes are one-character strings; positions are    *)
(* counted from 0 as in the source.  A BTreeMap is a function on its keys,  *)
(* which encode goes through in byte order.                                 *)

\* The bytes used, in the order of their codes.
AsciiOrder ==
    <<" ", "&", "+", "-", "0", "1", "2", "3", "4", "5", "6", "7", "8", "9", ":", "=", "?",
      "a", "b", "c", "d", "e", "f", "g", "h", "i", "l", "m", "n", "o", "p", "r", "s",
      "t", "u", "x", "z">>

CharCode(c) == CHOOSE k \in 1..Len(AsciiOrder) : AsciiOrder[k] = c

\* The order of Vec<u8>: byte by byte, a proper prefix first.
RECURSIVE LexLess(_, _)
LexLess(a, b) ==
    IF b = <<>> THEN FALSE
    ELSE IF a = <<>> THEN TRUE
    ELSE IF Head(a) # Head(b) THEN CharCode(Head(a)) < CharCode(Head(b))
    ELSE LexLess(Tail(a), Tail(b))

\* The keys of a BTreeMap in iteration order.
RECURSIVE SortedKeys(_)
SortedKeys(keys) ==
    IF keys = {} THEN <<>>
    ELSE LET least == CHOOSE k \in keys : \A other \in keys \ {k} : LexLess(k, other)
         IN  <<least>> \o SortedKeys(keys \ {least})

\* BencodeValue
Integer(n) == [t |-> "Integer", n |-> n]

String(str) == [t |-> "String", s |-> str]

List(items) == [t |-> "List", items |-> items]

Dict(dict) == [t |-> "Dict", dict |-> dict]

\* format!("{}", n) of an integer.
FormatInt(n) == IF n < 0 THEN <<"-">> \o Decimal(0 - n) ELSE Decimal(n)

\* BencodeValue::encode
RECURSIVE encode(_)
RECURSIVE EncodeItems(_)
RECURSIVE EncodeEntries(_, _)
encode(v) ==
    CASE v.t = "Integer" -> <<"i">> \o FormatInt(v.n) \o <<"e">>
      [] v.t = "String" -> Decimal(Len(v.s)) \o <<":">> \o v.s
      [] v.t = "List" -> <<"l">> \o EncodeItems(v.items) \o <<"e">>
      [] v.t = "Dict" ->
            <<"d">> \o EncodeEntries(v.dict, SortedKeys(DOMAIN v.dict)) \o <<"e">>

EncodeItems(items) ==
    IF items = <<>> THEN <<>> ELSE encode(Head(items)) \o EncodeItems(Tail(items))

EncodeEntries(dict, keys) ==
    IF keys = <<>> THEN <<>>
    ELSE Decimal(Len(Head(keys))) \o <<":">> \o Head(keys)
         \o encode(dict[Head(keys)]) \o EncodeEntries(dict, Tail(keys))

\* A result of parse: Err, or Ok((value, consumed)).  sorted is not in the
\* source: it records whether the keys of every dictionary read came in
\* strictly rising order.
ParseErr == [ok |-> FALSE]

ParseOk(value, consumed, sorted) ==
    [ok |-> TRUE, value |-> value, consumed |-> consumed, sorted |-> sorted]

\* iter().position(|&b| b == c): the first position of c in data, or None.
Position(data, c) ==
    IF \E k \in 1..Len(data) : data[k] = c
    THEN (CHOOSE k \in 1..Len(data) : data[k] = c /\ \A j \in 1..(k - 1) : data[j] # c) - 1
    ELSE None

\* str::parse::<i64>: an optional sign, then digits only, at least one.
\* (The strings followed are too short to overflow.)
ParseI64(str) ==
    LET signed == str # <<>> /\ Head(str) \in {"+", "-"}
        body   == IF signed THEN Tail(str) ELSE str
    IN  IF body = <<>> \/ \E k \in 1..Len(body) : ~IsDigit(body[k])
        THEN [ok |-> FALSE]
        ELSE [ok |-> TRUE,
              n  |-> IF signed /\ Head(str) = "-" THEN 0 - DecimalValue(body)
                     ELSE DecimalValue(body)]

\* data[from..]
SliceFrom(data, from) == SubSeq(data, from + 1, Len(data))

\* BencodeValue::parse_integer
parse_integer(data) ==
    LET end == Position(data, "e")
    IN  IF end = None THEN ParseErr
        ELSE LET num == ParseI64(SubSeq(data, 2, end))
             IN  IF ~num.ok THEN ParseErr
                 ELSE ParseOk(Integer(num.n), end + 1, TRUE)

\* BencodeValue::parse_string
parse_string(data) ==
    LET colon == Position(data, ":")
    IN  IF colon = None THEN ParseErr
        ELSE LET len == ParseU64(SubSeq(data, 1, colon))
                 start == colon + 1
             IN  IF len = None THEN ParseErr
                 ELSE IF start + len > Len(data) THEN ParseErr
                 ELSE ParseOk(String(SubSeq(data, start + 1, start + len)),
                              start + len, TRUE)

RECURSIVE parse(_)
RECURSIVE ListFrom(_, _, _, _)
RECURSIVE DictFrom(_, _, _, _, _)

\* BencodeValue::parse_list: the loop from position pos on.
ListFrom(data, pos, items, sorted) ==
    IF pos < Len(data) /\ data[pos + 1] # "e"
    THEN LET r == parse(SliceFrom(data, pos))
         IN  IF ~r.ok THEN ParseErr
             ELSE ListFrom(data, pos + r.consumed, Append(items, r.value),
                           sorted /\ r.sorted)
    ELSE IF pos >= Len(data) THEN ParseErr
    ELSE ParseOk(List(items), pos + 1, sorted)

\* BencodeValue::parse_dict: the loop from position pos on; last is the
\* sequence of the keys read so far.
DictFrom(data, pos, dict, last, sorted) ==
    IF pos < Len(data) /\ data[pos + 1] # "e"
    THEN LET k == parse(SliceFrom(data, pos))
         IN  IF ~k.ok THEN ParseErr
             ELSE IF k.value.t # "String" THEN ParseErr
             ELSE LET v == parse(SliceFrom(data, pos + k.consumed))
                  IN  IF ~v.ok THEN ParseErr
                      ELSE DictFrom(data, pos + k.consumed + v.consumed,
                                    MapInsert(dict, k.value.s, v.value),
                                    Append(last, k.value.s),
                                    /\ sorted
                                    /\ v.sorted
                                    /\ (last = <<>> \/ LexLess(last[Len(last)], k.value.s)))
    ELSE IF pos >= Len(data) THEN ParseErr
    ELSE ParseOk(Dict(dict), pos + 1, sorted)

\* BencodeValue::parse
parse(data) ==
    IF data = <<>> THEN ParseErr
    ELSE CASE data[1] = "i" -> parse_integer(data)
           [] data[1] = "l" -> ListFrom(data, 1, <<>>, TRUE)
           [] data[1] = "d" -> DictFrom(data, 1, <<>>, <<>>, TRUE)
           [] IsDigit(data[1]) -> parse_string(data)
           [] OTHER -> ParseErr

\* A value is encoded and the bytes parsed again, or bytes are parsed and
\* the value, if any, encoded again.
BencodeRoundTrip ==
    /\ ben_in # <<>>
    /\ ben_out = <<>>
    /\ ben_out' =
          IF ben_in.kind = "value"
          THEN [encoded |-> encode(ben_in.v), parsed |-> parse(encode(ben_in.v))]
          ELSE LET r == parse(ben_in.x)
               IN  [encoded |-> IF r.ok THEN encode(r.value) ELSE <<>>, parsed |-> r]
    /\ UNCHANGED <<ben_in, metaVars, sessVars, pieceVars, diskVars, stop_rx,
                   trackerVars, loopVars, hostVars, peerVars, restored_valid,
                   httpVars, parseVars, auxVars, shakeVars, torrentVars, magnetVars>>

\* The values followed: integers and byte strings, lists and dictionaries
\* of them, and lists and dictionaries one level deeper.
BencodeAtoms ==
    {Integer(n) : n \in {0 - 1, 0, 10}}
    \cup {String(str) : str \in {<<>>, <<"a">>, <<"1", "e">>}}

BencodeLists == {List(items) : items \in UNION {[1..n -> BencodeAtoms] : n \in 0..2}}

BencodeKeys == {<<>>, <<"a">>, <<"a", "a">>, <<"b">>}

BencodeDicts ==
    {Dict(dict) : dict \in UNION {[keys -> BencodeAtoms \cup {List(<<>>)}] :
                                     keys \in {k \in SUBSET BencodeKeys : Cardinality(k) <= 2}}}

BencodeValues ==
    BencodeAtoms \cup BencodeLists \cup BencodeDicts
    \cup {List(<<v>>) : v \in BencodeDicts}
    \cup {Dict([k \in {<<"a">>} |-> v]) : v \in BencodeLists}

\* The bytes followed: every string of up to MaxBencodeLen of these bytes,
\* and some dictionaries, with keys in and out of order and repeated.
BencodeChars == {"i", "e", "l", "d", "0", "1", ":", "-", "a"}

BencodeStrings == UNION {[1..n -> BencodeChars] : n \in 0..MaxBencodeLen}

BencodeDictStrings ==
    {<<"d", "1", ":", "a", "i", "0", "e", "1", ":", "b", "l", "e", "e">>,
     <<"d", "1", ":", "b", "i", "0", "e", "1", ":", "a", "l", "e", "e">>,
     <<"d", "1", ":", "a", "i", "0", "e", "1", ":", "a", "l", "e", "e">>,
     <<"d", "1", ":", "a", "i", "0", "0", "e", "e">>,
     <<"d", "0", "1", ":", "a", "i", "0", "e", "e">>}

InitBencode ==
    /\ InitSession(LayoutTwoAndSix, {}, {})
    /\ ParseIdle
    /\ ShakeIdle
    /\ TorrentIdle
    /\ MagnetIdle
    /\ AuxIdle
    /\ ben_in \in {[kind |-> "value", v |-> v] : v \in BencodeValues}
                  \cup {[kind |-> "bytes", x |-> x] :
                           x \in BencodeStrings \cup BencodeDictStrings}
    /\ ben_out = <<>>

NextBencode == BencodeRoundTrip

SpecBencode == InitBencode /\ [][NextBencode]_vars

\* C16: once the round trip has run, a value v was parsed back from
\* encode(v) as v with all of encode(v) consumed, and bytes x that parse
\* accepted whole, with the keys of every dictionary in strictly rising
\* order, were encoded back to x.
C16_BencodeRoundTrip ==
    ben_out # <<>> =>
        /\ ben_in.kind = "value" =>
              /\ ben_out.parsed.ok
              /\ ben_out.parsed.value = ben_in.v
              /\ ben_out.parsed.consumed = Len(ben_out.encoded)
        /\ (/\ ben_in.kind = "bytes"
            /\ ben_out.parsed.ok
            /\ ben_out.parsed.consumed = Len(ben_in.x)
            /\ ben_out.parsed.sorted)
           => ben_out.encoded = ben_in.x

\* C16: the bytes i01e were accepted whole as the integer 1 and encoded
\* back as i1e.
C16_LeadingZeroAccepted ==
    /\ ben_in # <<>>
    /\ ben_in.kind = "bytes"
    /\ ben_in.x = <<"i", "0", "1", "e">>
    /\ ben_out # <<>>
    /\ ben_out.parsed.ok
    /\ ben_out.parsed.value = Integer(1)
    /\ ben_out.parsed.consumed = 4
    /\ ben_out.encoded = <<"i", "1", "e">>

----------------------------------------------------------------------------
(* Metainfo files (torrent.rs: from_bytes, from_bencode,                    *)
(* calculate_info_hash).  Lengths here are in bytes.                        *)

KeyInfo == <<"i", "n", "f", "o">>

KeyName == <<"n", "a", "m", "e">>

KeyPieceLength == <<"p", "i", "e", "c", "e", " ", "l", "e", "n", "g", "t", "h">>

KeyPieces == <<"p", "i", "e", "c", "e", "s">>

KeyLength == <<"l", "e", "n", "g", "t", "h">>

KeyFiles == <<"f", "i", "l", "e", "s">>

KeyPath == <<"p", "a", "t", "h">>

KeyComment == <<"c", "o", "m", "m", "e", "n", "t">>

\* b"4:infod", what calculate_info_hash looks for.
InfoKeyPattern == <<"4", ":", "i", "n", "f", "o", "d">>

\* The length of a SHA-1 digest in the pieces string.
DigestLen == 20

\* BencodeValue::get: Some(value) as <<value>>, None as <<>>.
get(v, key) ==
    IF v.t = "Dict" /\ key \in DOMAIN v.dict THEN <<v.dict[key]>> ELSE <<>>

\* Option::and_then(as_integer), and_then(as_string), and_then(as_list).
AsTyped(opt, type) ==
    IF opt # <<>> /\ opt[1].t = type THEN opt ELSE <<>>

\* data.windows(n).position(|w| w == pat): the first position of pat.
FindWindow(data, pat) ==
    LET hits == {k \in 0..(Len(data) - Len(pat)) :
                    SubSeq(data, k + 1, k + Len(pat)) = pat}
    IN  IF hits = {} THEN None
        ELSE CHOOSE k \in hits : \A other \in hits : k <= other

\* TorrentMetainfo::calculate_info_hash: Err, or the hash of the bytes from
\* the 'd' after the first "4:info" to the end of the value parsed there.
calculate_info_hash(data) ==
    LET pos == FindWindow(data, InfoKeyPattern)
    IN  IF pos = None THEN [ok |-> FALSE]
        ELSE LET info_start == pos + 6
                 r == parse(SliceFrom(data, info_start))
             IN  IF ~r.ok THEN [ok |-> FALSE]
                 ELSE [ok |-> TRUE,
                       hash |-> Sha1(SubSeq(data, info_start + 1, info_start + r.consumed))]

\* from_bencode, multiple files mode: the lengths of the entries of the
\* files list, or Err.
RECURSIVE FileLengthsOf(_)
FileLengthsOf(files_list) ==
    IF files_list = <<>> THEN [ok |-> TRUE, lengths |-> <<>>]
    ELSE LET file_entry == Head(files_list)
             length == AsTyped(get(file_entry, KeyLength), "Integer")
             path == AsTyped(get(file_entry, KeyPath), "List")
             rest == FileLengthsOf(Tail(files_list))
         IN  IF file_entry.t # "Dict" \/ length = <<>> \/ path = <<>> \/ ~rest.ok
             THEN [ok |-> FALSE]
             ELSE [ok |-> TRUE, lengths |-> <<length[1].n>> \o rest.lengths]

\* from_bencode: the files and the total size, or Err.
FilesOf(info) ==
    IF get(info, KeyLength) # <<>>
    THEN IF get(info, KeyLength)[1].t # "Integer" THEN [ok |-> FALSE]
         ELSE [ok |-> TRUE, lengths |-> <<get(info, KeyLength)[1].n>>]
    ELSE IF get(info, KeyFiles) # <<>>
    THEN IF get(info, KeyFiles)[1].t # "List" THEN [ok |-> FALSE]
         ELSE FileLengthsOf(get(info, KeyFiles)[1].items)
    ELSE [ok |-> FALSE]

TorrentErr == [ok |-> FALSE]

\* TorrentMetainfo::from_bencode.  (The casts of the integers to u64 are
\* not followed: the lengths given are not negative.)
from_bencode(value, raw_data) ==
    LET info == get(value, KeyInfo)
    IN  IF value.t # "Dict" \/ info = <<>> THEN TorrentErr
        ELSE IF info[1].t # "Dict" THEN TorrentErr
        ELSE LET info_hash == calculate_info_hash(raw_data)
                 name == AsTyped(get(info[1], KeyName), "String")
                 piece_len == AsTyped(get(info[1], KeyPieceLength), "Integer")
                 pieces_raw == AsTyped(get(info[1], KeyPieces), "String")
                 files == FilesOf(info[1])
             IN  IF ~info_hash.ok \/ name = <<>> \/ piece_len = <<>> \/ pieces_raw = <<>>
                 THEN TorrentErr
                 ELSE IF Len(pieces_raw[1].s) % DigestLen # 0 THEN TorrentErr
                 ELSE IF ~files.ok THEN TorrentErr
                 ELSE [ok |-> TRUE,
                       info_hash |-> info_hash.hash,
                       name |-> name[1].s,
                       piece_length |-> piece_len[1].n,
                       num_pieces |-> Len(pieces_raw[1].s) \div DigestLen,
                       files |-> files.lengths,
                       total_size |-> SumTo(files.lengths, Len(files.lengths))]

\* TorrentMetainfo::from_bytes
from_bytes(data) ==
    LET r == parse(data)
    IN  IF ~r.ok THEN TorrentErr ELSE from_bencode(r.value, data)

\* TorrentMetainfo::piece_size and PieceManager::piece_size over a loaded
\* metainfo m; a piece length of 0 makes the remainder panic.
piece_size_of(m, piece_idx) ==
    IF piece_idx = m.num_pieces - 1
    THEN IF m.piece_length = 0 THEN Panic
         ELSE LET remainder == m.total_size % m.piece_length
              IN  IF remainder = 0 THEN m.piece_length ELSE remainder
    ELSE m.piece_length

\* from_bytes is called on the input.
FromBytes ==
    /\ tor_in # <<>>
    /\ tor_out = <<>>
    /\ tor_out' = from_bytes(tor_in)
    /\ UNCHANGED <<tor_in, metaVars, sessVars, pieceVars, diskVars, stop_rx,
                   trackerVars, loopVars, hostVars, peerVars, restored_valid,
                   httpVars, parseVars, auxVars, shakeVars, bencodeVars, magnetVars>>

\* The .torrent inputs followed: the canonical encoding of a dictionary
\* with an info dictionary (a name, a piece length, a number of digests,
\* and one length or a files list) and possibly a comment.
DictOf(keys, values) == [k \in {keys[j] : j \in 1..Len(keys)} |->
                            values[CHOOSE j \in 1..Len(keys) : keys[j] = k]]

Digests(n) == [k \in 1..(n * DigestLen) |-> "x"]

FileEntryOf(length) ==
    Dict(DictOf(<<KeyLength, KeyPath>>, <<Integer(length), List(<<String(<<"f">>)>>)>>))

InfoOf(lengths, single, piece_len, n) ==
    Dict(DictOf(<<KeyName, KeyPieceLength, KeyPieces,
                  IF single THEN KeyLength ELSE KeyFiles>>,
                <<String(<<"a">>), Integer(piece_len), String(Digests(n)),
                  IF single THEN Integer(lengths[1])
                  ELSE List([j \in 1..Len(lengths) |-> FileEntryOf(lengths[j])])>>))

TorrentOf(comment, info) ==
    Dict(IF comment = <<>> THEN DictOf(<<KeyInfo>>, <<info>>)
         ELSE DictOf(<<KeyComment, KeyInfo>>, <<String(comment[1]), info>>))

TorrentComments == {<<>>, <<<<"h", "i">>>>, <<InfoKeyPattern>>}

TorrentLengths == {<<0>>, <<5>>, <<8>>, <<3, 5>>}

TorrentPieceLengths == {0, 1, 4}

MaxDigests == 3

TorrentInputs ==
    {encode(TorrentOf(comment, InfoOf(lengths, Len(lengths) = 1, piece_len, n))) :
        comment \in TorrentComments, lengths \in TorrentLengths,
        piece_len \in TorrentPieceLengths, n \in 0..MaxDigests}
    \cup {encode(Dict(DictOf(<<KeyComment>>, <<String(<<"h", "i">>)>>)))}

InitTorrent ==
    /\ InitSession(LayoutTwoAndSix, {}, {})
    /\ ParseIdle
    /\ ShakeIdle
    /\ BencodeIdle
    /\ MagnetIdle
    /\ AuxIdle
    /\ tor_in \in TorrentInputs
    /\ tor_out = <<>>

NextTorrent == FromBytes

SpecTorrent == InitTorrent /\ [][NextTorrent]_vars

\* The span of the value of the last entry with the given key in the
\* top-level dictionary of data, as positions [from, to), found by going
\* through the entries as parse_dict does; <<>> if there is none.
RECURSIVE ValueSpanFrom(_, _, _, _)
ValueSpanFrom(data, pos, key, found) ==
    IF pos < Len(data) /\ data[pos + 1] # "e"
    THEN LET k == parse(SliceFrom(data, pos))
             v == parse(SliceFrom(data, pos + k.consumed))
         IN  ValueSpanFrom(data, pos + k.consumed + v.consumed, key,
                           IF k.value.s = key
                           THEN <<pos + k.consumed, pos + k.consumed + v.consumed>>
                           ELSE found)
    ELSE found

\* C17: for every input from_bytes accepted, the info-digest is the hash
\* of exactly the bytes that parse consumed for the value of the
\* top-level 'info' key.
C17_InfoHashOfInfoSlice ==
    (tor_out # <<>> /\ tor_out.ok) =>
        LET span == ValueSpanFrom(tor_in, 1, KeyInfo, <<>>)
        IN  tor_out.info_hash = Sha1(SubSeq(tor_in, span[1] + 1, span[2]))

\* C17: a metainfo whose comment is the text "4:infod" was accepted with
\* an info-digest that is the hash of other bytes than its info value.
C17_CommentTakenForInfo ==
    /\ tor_out # <<>>
    /\ tor_out.ok
    /\ FindWindow(tor_in, InfoKeyPattern) < ValueSpanFrom(tor_in, 1, KeyInfo, <<>>)[1] - 6
    /\ tor_out.info_hash #
          Sha1(SubSeq(tor_in, ValueSpanFrom(tor_in, 1, KeyInfo, <<>>)[1] + 1,
                      ValueSpanFrom(tor_in, 1, KeyInfo, <<>>)[2]))

\* ceil(total / piece_len) for piece_len >= 1.
CeilDiv(total, piece_len) == (total + piece_len - 1) \div piece_len

RECURSIVE PieceSizesSum(_, _)
PieceSizesSum(m, n) ==
    IF n = 0 THEN 0 ELSE PieceSizesSum(m, n - 1) + piece_size_of(m, n - 1)

\* C18: for every metainfo from_bytes accepted, the piece length L is at
\* least 1, the piece count N is ceil(T / L), every piece before the last
\* has size L, the last has size T - (N - 1) * L, and the sizes sum to T.
C18_PieceArithmetic ==
    (tor_out # <<>> /\ tor_out.ok) =>
        /\ tor_out.piece_length >= 1
        /\ tor_out.num_pieces = CeilDiv(tor_out.total_size, tor_out.piece_length)
        /\ \A i \in 0..(tor_out.num_pieces - 2) :
              piece_size_of(tor_out, i) = tor_out.piece_length
        /\ tor_out.num_pieces >= 1 =>
              piece_size_of(tor_out, tor_out.num_pieces - 1) =
                  tor_out.total_size - (tor_out.num_pieces - 1) * tor_out.piece_length
        /\ PieceSizesSum(tor_out, tor_out.num_pieces) = tor_out.total_size

\* C18: a metainfo of 5 bytes in pieces of 4 that carries one digest was
\* accepted, and its piece sizes sum to 1.
C18_TooFewDigestsAccepted ==
    /\ tor_out # <<>>
    /\ tor_out.ok
    /\ tor_out.total_size = 5
    /\ tor_out.piece_length = 4
    /\ tor_out.num_pieces = 1
    /\ PieceSizesSum(tor_out, 1) = 1

----------------------------------------------------------------------------
(* Pieces written to the files and read back: one peer task downloads the  *)
(* torrent, with writes that may fail, over several layouts of files and    *)
(* pieces and over download directories that hold files of zeros.           *)

StoreLayouts == {LayoutTwoTens, LayoutTwoAndSix, LayoutTwoSixes}

InitStore ==
    /\ \E m \in StoreLayouts : \E fs \in SUBSET {1, 2} :
          InitSession(m, fs, 0..2)
    /\ ParseIdle
    /\ CodecIdle

NextStore ==
    \/ Start
    \/ SessionsInsert
    \/ ListenerBind(TRUE)
    \/ ListenerAccept(1)
    \/ PeerTaskDisk(1, LifeMessages(1))

SpecStore == InitStore /\ [][NextStore]_vars

\* C19: once every piece is Complete (verified and written by
\* write_piece), read_data(0, T) is Ok and returns the true bytes of the
\* torrent, and every file holds at each file-local offset the byte of its
\* global offset.
C19_WrittenPiecesReadBack ==
    is_complete =>
        /\ read_data_ok(0, total_size)
        /\ read_data(0, total_size) = ContentRange(0, total_size)
        /\ \A f \in Files : \A k \in 0..(FileLength(f) - 1) :
              FileByte(f, k) = Content(FileOffset(f) + k)

\* C19: the torrent of two files of 10 in pieces of 8, 8 and 4 is
\* complete, piece 1 having been written across the file boundary, and
\* the second file starts with the last 6 bytes of piece 1.
C19_BoundaryPieceReadBack ==
    /\ file_lengths = <<10, 10>>
    /\ piece_length = 8
    /\ is_complete
    /\ \A i \in Pieces : piece_size(i) = <<8, 8, 4>>[i + 1]
    /\ [k \in 1..6 |-> FileByte(2, k - 1)] = SubSeq(ContentRange(8, 8), 3, 8)
    /\ read_data_ok(0, total_size)

----------------------------------------------------------------------------
(* Magnet links (torrent.rs: from_magnet, decode_base32).                   *)

MagnetPrefix == <<"m", "a", "g", "n", "e", "t", ":", "?">>

BtihPrefix == <<"u", "r", "n", ":", "b", "t", "i", "h", ":">>

KeyXt == <<"x", "t">>

KeyDn == <<"d", "n">>

KeyTr == <<"t", "r">>

HexLower == <<"0", "1", "2", "3", "4", "5", "6", "7", "8", "9", "a", "b", "c", "d", "e", "f">>

HexUpper == <<"0", "1", "2", "3", "4", "5", "6", "7", "8", "9", "A", "B", "C", "D", "E", "F">>

LowerLetters ==
    <<"a", "b", "c", "d", "e", "f", "g", "h", "i", "j", "k", "l", "m",
      "n", "o", "p", "q", "r", "s", "t", "u", "v", "w", "x", "y", "z">>

\* decode_base32: ALPHABET
ALPHABET ==
    <<"A", "B", "C", "D", "E", "F", "G", "H", "I", "J", "K", "L", "M",
      "N", "O", "P", "Q", "R", "S", "T", "U", "V", "W", "X", "Y", "Z",
      "2", "3", "4", "5", "6", "7">>

\* The lengths from_magnet accepts for the hash of the xt parameter.
HexHashLen == 40

Base32HashLen == 32

\* The length of an info-hash in bytes.
InfoHashLen == 20

\* The value of a hex digit of either case, None for another character.
HexVal(c) ==
    IF Position(HexLower, c) # None THEN Position(HexLower, c)
    ELSE Position(HexUpper, c)

\* str::to_uppercase over ASCII.
ToUpper(c) ==
    IF Position(LowerLetters, c) # None THEN ALPHABET[Position(LowerLetters, c) + 1]
    ELSE c

\* str::starts_with
StartsWith(str, prefix) ==
    Len(str) >= Len(prefix) /\ SubSeq(str, 1, Len(prefix)) = prefix

\* str::split(sep)
RECURSIVE Split(_, _)
Split(str, sep) ==
    LET pos == Position(str, sep)
    IN  IF pos = None THEN <<str>>
        ELSE <<SubSeq(str, 1, pos)>> \o Split(SliceFrom(str, pos + 1), sep)

\* pair.splitn(2, '='): <<key, value>>, or <<>> for a pair without '='.
SplitPair(pair) ==
    LET pos == Position(pair, "=")
    IN  IF pos = None THEN <<>>
        ELSE <<SubSeq(pair, 1, pos), SliceFrom(pair, pos + 1)>>

\* The pairs collected into the HashMap: a later pair replaces an earlier
\* one of the same key.
RECURSIVE CollectParams(_, _)
CollectParams(pairs, n) ==
    IF n = 0 THEN <<>>
    ELSE LET kv == SplitPair(pairs[n])
         IN  IF kv = <<>> THEN CollectParams(pairs, n - 1)
             ELSE MapInsert(CollectParams(pairs, n - 1), kv[1], kv[2])

\* The character of a byte, for the bytes escaped in the links followed.
ByteChar(b) ==
    CASE b = 38 -> "&"
      [] b = 47 -> "/"
      [] b = 58 -> ":"
      [] b = 61 -> "="

\* urlencoding::decode: "%" and two hex digits give one byte, anything
\* else stays.
RECURSIVE UrlDecode(_)
UrlDecode(str) ==
    IF str = <<>> THEN <<>>
    ELSE IF /\ Head(str) = "%"
            /\ Len(str) >= 3
            /\ HexVal(str[2]) # None
            /\ HexVal(str[3]) # None
    THEN <<ByteChar(16 * HexVal(str[2]) + HexVal(str[3]))>> \o UrlDecode(SubSeq(str, 4, Len(str)))
    ELSE <<Head(str)>> \o UrlDecode(Tail(str))

\* hex::decode_to_slice of 40 characters: 20 bytes, or Err.
HexDecode(hash_hex) ==
    IF \E k \in 1..Len(hash_hex) : HexVal(hash_hex[k]) = None THEN [ok |-> FALSE]
    ELSE [ok |-> TRUE,
          hash |-> [k \in 1..(Len(hash_hex) \div 2) |->
                       16 * HexVal(hash_hex[2 * k - 1]) + HexVal(hash_hex[2 * k])]]

\* hex::encode
RECURSIVE HexEncode(_)
HexEncode(bytes) ==
    IF bytes = <<>> THEN <<>>
    ELSE <<HexLower[(Head(bytes) \div 16) + 1], HexLower[(Head(bytes) % 16) + 1]>>
         \o HexEncode(Tail(bytes))

\* 2^n
RECURSIVE Pow2(_)
Pow2(n) == IF n = 0 THEN 1 ELSE 2 * Pow2(n - 1)

\* decode_base32: the loop after the first k characters.  Of the buffer
\* only the bits not yet taken are kept; the others are never read.
RECURSIVE Base32After(_, _)
Base32After(input, k) ==
    IF k = 0 THEN [ok |-> TRUE, buffer |-> 0, bits |-> 0, result |-> <<>>]
    ELSE LET before == Base32After(input, k - 1)
             value == Position(ALPHABET, ToUpper(input[k]))
             buffer == before.buffer * 32 + value
             takes == before.bits + 5 >= 8 /\ Len(before.result) < InfoHashLen
             bits == IF takes THEN before.bits + 5 - 8 ELSE before.bits + 5
         IN  IF ~before.ok \/ value = None THEN [ok |-> FALSE]
             ELSE [ok |-> TRUE,
                   buffer |-> buffer % Pow2(bits),
                   bits |-> bits,
                   result |-> IF takes
                              THEN Append(before.result, (buffer \div Pow2(bits)) % 256)
                              ELSE before.result]

\* TorrentMetainfo::decode_base32
decode_base32(input) ==
    LET end == Base32After(input, Len(input))
    IN  IF ~end.ok \/ Len(end.result) # InfoHashLen THEN [ok |-> FALSE]
        ELSE [ok |-> TRUE, hash |-> end.result]

MagnetErr == [ok |-> FALSE]

\* TorrentMetainfo::from_magnet
from_magnet(magnet) ==
    IF ~StartsWith(magnet, MagnetPrefix) THEN MagnetErr
    ELSE LET pairs == Split(SliceFrom(magnet, 8), "&")
             params == CollectParams(pairs, Len(pairs))
         IN  IF KeyXt \notin DOMAIN params THEN MagnetErr
             ELSE IF ~StartsWith(params[KeyXt], BtihPrefix) THEN MagnetErr
             ELSE LET hash_hex == SliceFrom(params[KeyXt], Len(BtihPrefix))
                      info_hash == IF Len(hash_hex) = HexHashLen THEN HexDecode(hash_hex)
                                   ELSE IF Len(hash_hex) = Base32HashLen
                                   THEN decode_base32(hash_hex)
                                   ELSE [ok |-> FALSE]
                  IN  IF ~info_hash.ok THEN MagnetErr
                      ELSE [ok |-> TRUE,
                            info_hash |-> info_hash.hash,
                            name |-> IF KeyDn \in DOMAIN params
                                     THEN UrlDecode(params[KeyDn])
                                     ELSE HexEncode(info_hash.hash),
                            trackers |-> IF KeyTr \in DOMAIN params
                                         THEN <<UrlDecode(params[KeyTr])>>
                                         ELSE <<>>]

\* from_magnet is called on the input.
FromMagnet ==
    /\ mag_in # <<>>
    /\ mag_out = <<>>
    /\ mag_out' = from_magnet(mag_in)
    /\ UNCHANGED <<mag_in, metaVars, sessVars, pieceVars, diskVars, stop_rx,
                   trackerVars, loopVars, hostVars, peerVars, restored_valid,
                   httpVars, parseVars, auxVars, shakeVars, bencodeVars, torrentVars>>

\* The parameters of the links followed: xt with a hash in hex, in
\* base32, too short, or not hex; a dn; tr with three URLs, one of them
\* escaped; a parameter without '='.
Param(key, value) == key \o <<"=">> \o value

Repeat(c, n) == [k \in 1..n |-> c]

MagnetParams ==
    {Param(KeyXt, BtihPrefix \o Repeat("a", HexHashLen)),
     Param(KeyXt, BtihPrefix \o Repeat("b", Base32HashLen)),
     Param(KeyXt, BtihPrefix \o Repeat("a", 3)),
     Param(KeyXt, BtihPrefix \o Repeat("g", HexHashLen)),
     Param(KeyDn, <<"a">>),
     Param(KeyTr, <<"u">>),
     Param(KeyTr, <<"v">>),
     Param(KeyTr, <<"w", "%", "3", "A", "x">>),
     <<"x">>}

MaxMagnetParams == 3

RECURSIVE Join(_)
Join(params) ==
    IF Len(params) = 1 THEN params[1]
    ELSE params[1] \o <<"&">> \o Join(Tail(params))

MagnetInputs ==
    {prefix \o Join(params) :
        prefix \in {MagnetPrefix, <<"m", "a", "g", "n", "e", "t", ":">>},
        params \in {ps \in UNION {[1..n -> MagnetParams] : n \in 1..MaxMagnetParams} :
                       \A j, k \in DOMAIN ps : j # k => ps[j] # ps[k]}}

InitMagnet ==
    /\ InitSession(LayoutTwoAndSix, {}, {})
    /\ ParseIdle
    /\ ShakeIdle
    /\ BencodeIdle
    /\ TorrentIdle
    /\ AuxIdle
    /\ mag_in \in MagnetInputs
    /\ mag_out = <<>>

NextMagnet == FromMagnet

SpecMagnet == InitMagnet /\ [][NextMagnet]_vars

\* The URLs the tr parameters of a link give.
TrGiven(magnet) ==
    LET pairs == Split(SliceFrom(magnet, 8), "&")
    IN  {UrlDecode(SplitPair(pairs[k])[2]) :
            k \in {j \in 1..Len(pairs) : SplitPair(pairs[j]) # <<>>
                                          /\ SplitPair(pairs[j])[1] = KeyTr}}

\* C20: for every link from_magnet accepted, the trackers list contains
\* the URL of every tr parameter of the link.
C20_EveryTrackerReturned ==
    (mag_out # <<>> /\ mag_out.ok) =>
        \A url \in TrGiven(mag_in) :
            \E k \in 1..Len(mag_out.trackers) : mag_out.trackers[k] = url

\* C20: a link with two distinct tr parameters was accepted and its
\* trackers list holds one URL.
C20_TwoTrackersOneReturned ==
    /\ mag_out # <<>>
    /\ mag_out.ok
    /\ Cardinality(TrGiven(mag_in)) = 2
    /\ Len(mag_out.trackers) = 1

----------------------------------------------------------------------------
(* The IP filter of the configuration (config.rs).                          *)

\* Vec::contains
Contains(list, x) == \E k \in 1..Len(list) : list[k] = x

\* iter().position(|i| i == x): the first index of x, from 0, or None.
PositionOf(list, x) ==
    IF Contains(list, x)
    THEN (CHOOSE k \in 1..Len(list) : list[k] = x /\ \A j \in 1..(k - 1) : list[j] # x) - 1
    ELSE None

\* Vec::remove(pos)
RemoveAt(list, pos) == SubSeq(list, 1, pos) \o SubSeq(list, pos + 2, Len(list))

\* Config::is_ip_banned
is_ip_banned(ip) == ip_enabled /\ Contains(banned_ips, ip)

\* ban_ip pushing the address whether or not the list holds it.
ban_ip_unchecked(list, ip) == Append(list, ip)

\* Config::ban_ip: the list after it.
ban_ip(list, ip) == IF ~Contains(list, ip) THEN Append(list, ip) ELSE list

\* Config::unban_ip: the list after it and the value returned.
unban_ip(list, ip) ==
    LET pos == PositionOf(list, ip)
    IN  IF pos # None THEN [list |-> RemoveAt(list, pos), ret |-> TRUE]
        ELSE [list |-> list, ret |-> FALSE]

\* The host turns the filter on or off (config.ip_filter.enabled).
SetFilterEnabled(on) ==
    /\ ip_enabled # on
    /\ ip_enabled' = on
    /\ UNCHANGED <<banned_ips, ip_last, unban_result, sessionVars, shakeVars,
                   bencodeVars, torrentVars, magnetVars, udpVars,
                   announceVars>>

\* Engine::ban_peer, Config::ban_ip
BanIp(ip) ==
    /\ banned_ips' = ban_ip(banned_ips, ip)
    /\ ip_last' = [ip_last EXCEPT ![ip] = "ban"]
    /\ UNCHANGED <<ip_enabled, unban_result, sessionVars, shakeVars, bencodeVars,
                   torrentVars, magnetVars, udpVars,
                   announceVars>>

\* Config::unban_ip
UnbanIp(ip) ==
    /\ banned_ips' = unban_ip(banned_ips, ip).list
    /\ ip_last' = [ip_last EXCEPT ![ip] = "unban"]
    /\ unban_result' = [ip |-> ip, was_banned |-> Contains(banned_ips, ip),
                        ret |-> unban_ip(banned_ips, ip).ret]
    /\ UNCHANGED <<ip_enabled, sessionVars, shakeVars, bencodeVars, torrentVars,
                   magnetVars, udpVars,
                   announceVars>>

InitFilter ==
    /\ InitSession(LayoutTwoAndSix, {}, {})
    /\ ParseIdle
    /\ ShakeIdle
    /\ BencodeIdle
    /\ TorrentIdle
    /\ MagnetIdle
    /\ AuxIdle

NextFilter ==
    \/ \E on \in BOOLEAN : SetFilterEnabled(on)
    \/ \E ip \in Ips : BanIp(ip)
    \/ \E ip \in Ips : UnbanIp(ip)

SpecFilter == InitFilter /\ [][NextFilter]_vars

\* The number of entries of the ban list that are the address ip.
BanEntries(ip) == Cardinality({k \in 1..Len(banned_ips) : banned_ips[k] = ip})

\* C21: with the filter enabled, is_ip_banned(x) is true exactly when the
\* last ban_ip / unban_ip call for x was ban_ip(x); no address has two
\* entries in the list; unban_ip returned true exactly when the address
\* was banned; and a call for one address leaves the status of every
\* other address as it was.
C21_BanListTracksLastCall ==
    /\ [](/\ ip_enabled => \A ip \in Ips : is_ip_banned(ip) <=> ip_last[ip] = "ban"
          /\ \A ip \in Ips : BanEntries(ip) <= 1
          /\ unban_result # <<>> => unban_result.ret = unban_result.was_banned)
    /\ [][\A ip \in Ips : (BanIp(ip) \/ UnbanIp(ip)) =>
             \A other \in Ips \ {ip} : is_ip_banned(other)' = is_ip_banned(other)]_vars

\* C21: with the filter enabled, one address was last banned and is
\* banned, a second was banned and then unbanned with the result true
\* and is not banned, and the third was never banned.
C21_BannedTwiceAndUnbanned ==
    /\ ip_enabled
    /\ ip_last["192.168.1.100"] = "ban"
    /\ is_ip_banned("192.168.1.100")
    /\ Len(banned_ips) = 1
    /\ ip_last["192.168.1.101"] = "unban"
    /\ unban_result = [ip |-> "192.168.1.101", was_banned |-> TRUE, ret |-> TRUE]
    /\ ~is_ip_banned("192.168.1.101")
    /\ ip_last["10.0.0.1"] = "none"

----------------------------------------------------------------------------
(* Outbound Requests and the session state (run_peer_session over SpecPeer) *)

\* Whether the messages out hold a Request.
HasRequest(out) == \E k \in 1..Len(out) : out[k].type = "Request"

\* A step of the task of p through its send loop (from the top of the loop
\* or from start_piece to the receive) that sends a Request.
SendsRequests(p) ==
    /\ ppc[p] \in {"top", "top_idle", "start"}
    /\ ppc'[p] = "recv"
    /\ HasRequest(outbox'[p])

\* The Piece message that serves the Request msg from the files.
Served(msg) ==
    <<[type |-> "Piece", index |-> msg.index, begin |-> msg.begin,
       block |-> GoodBlock([piece |-> msg.index, offset |-> msg.begin,
                            length |-> msg.length])]>>

\* C22 (as stated): in every step in which a peer task sends a Request the
\* session state is Downloading, and a Request received by a task in a
\* Seeding session is served.
C22_RequestsOnlyWhileDownloading ==
    [][\A p \in Peers :
          /\ (SendsRequests(p) => state = "Downloading")
          /\ \A msg \in RequestMessages :
                (lstate[p] = "Seeding" /\ PeerRecv(p, msg)) => outbox'[p] = Served(msg)]_vars

\* C22 (amended): in every step in which a peer task sends a Request, the
\* state it read at the top of the loop iteration it is in is Downloading,
\* and a Request received in an iteration that read Seeding is served.
C22_RequestsOnlyAfterReadingDownloading ==
    [][\A p \in Peers :
          /\ (SendsRequests(p) => lstate'[p] = "Downloading")
          /\ \A msg \in RequestMessages :
                (lstate[p] = "Seeding" /\ PeerRecv(p, msg)) => outbox'[p] = Served(msg)]_vars

\* C22: a task read Downloading, selected a piece, and sent its Requests
\* after the host paused the session.
C22_RequestedWhilePaused ==
    \E p \in Peers :
        /\ state = "Paused"
        /\ lstate[p] = "Downloading"
        /\ ppc[p] = "recv"
        /\ HasRequest(outbox[p])
        /\ Len(pending_requests[p]) > 0

----------------------------------------------------------------------------
(* Choke with Requests outstanding (run_peer_session, cancel_piece).        *)

\* The task of p receives a Choke while Requests on its current piece are
\* outstanding.
ChokedWithPending(p) ==
    /\ current_piece[p] # None
    /\ \E k \in 1..Len(pending_requests[p]) :
          pending_requests[p][k].piece = current_piece[p]
    /\ PeerRecv(p, Msg("Choke"))

----------------------------------------------------------------------------
(* A piece that fails its hash (verify_and_write_piece, the Ok(false) arm). *)

\* The task of p verifies piece v, all of whose blocks arrived, and the
\* assembled bytes do not hash to its digest.
VerifyMismatch(p, v) ==
    /\ vindex[p] = v
    /\ v \in DOMAIN in_progress
    /\ ~AssemblyPanics(v)
    /\ ~HashMatches(v)
    /\ PeerVerify(p)

\* The task of p matches on the Ok(false) that verify_and_write_piece gave
\* for piece v.
MatchMismatch(p, v) ==
    /\ vindex[p] = v
    /\ verify_result[p] = "ok_false"
    /\ PeerMark(p)

----------------------------------------------------------------------------
(* The scheduler under the priority sets and the mode the host installs.   *)

\* A torrent of two files of 6 with pieces of 4: three pieces of one block,
\* piece 1 across the file boundary.
LayoutThreeFours == [files |-> <<6, 6>>, piece_length |-> 4]

\* The number of pieces stream_torrent prioritizes (lib.rs: (0..10)).
StreamPrefetch == 10

\* Engine::toggle_sequential
ToggleSequential(enabled) ==
    /\ in_sessions
    /\ sequential' = enabled
    /\ UNCHANGED <<sessVars, have, in_progress, priority_pieces, diskVars, stop_rx,
                   trackerVars, loopVars, hostVars, peerVars, restored_valid,
                   httpVars, parseVars, metaVars, codecVars>>

\* Engine::toggle_first_last_piece: enabled, the first and the last piece
\* replace the priority set; disabled, the set stays.
ToggleFirstLastPiece(enabled) ==
    /\ in_sessions
    /\ priority_pieces' = IF enabled /\ num_pieces > 0
                          THEN {0, num_pieces - 1} ELSE priority_pieces
    /\ UNCHANGED <<sessVars, have, in_progress, sequential, diskVars, stop_rx,
                   trackerVars, loopVars, hostVars, peerVars, restored_valid,
                   httpVars, parseVars, metaVars, codecVars>>

\* Engine::stream_torrent: sequential mode on and the pieces 0..9 as the
\* priority set, whatever the number of pieces of the torrent.
StreamTorrent ==
    /\ in_sessions
    /\ sequential' = TRUE
    /\ priority_pieces' = 0..(StreamPrefetch - 1)
    /\ UNCHANGED <<sessVars, have, in_progress, diskVars, stop_rx,
                   trackerVars, loopVars, hostVars, peerVars, restored_valid,
                   httpVars, parseVars, metaVars, codecVars>>

\* The messages of a remote peer that announces pieces and delivers their
\* true bytes.
SelectMessages ==
    {Msg("Unchoke")} \cup HaveMessages
    \cup {[type |-> "Piece", index |-> b.piece, begin |-> b.offset,
           block |-> GoodBlock(b)] : b \in AllBlocks}

InitSelect ==
    /\ InitSession(LayoutThreeFours, {}, {})
    /\ ParseIdle
    /\ CodecIdle

NextSelect ==
    \/ Start
    \/ SessionsInsert
    \/ \E enabled \in BOOLEAN : ToggleSequential(enabled)
    \/ \E enabled \in BOOLEAN : ToggleFirstLastPiece(enabled)
    \/ StreamTorrent
    \/ ListenerBind(TRUE)
    \/ ListenerAccept(1)
    \/ PeerTask(1, SelectMessages)

SpecSelect == InitSelect /\ [][NextSelect]_vars

\* The eligible pieces of a bitfield.
EligibleSet(peer_has) == {q \in Pieces : Eligible(peer_has, q)}

\* C25: for every peer bitfield, every outcome of select_piece is None or
\* the index of a piece of the torrent that the peer has and that is not
\* Complete and not in progress, and None only when there is no such piece.
C25_SelectReturnsEligibleOrNone ==
    \A peer_has \in SUBSET Pieces :
        \A r \in select_piece(peer_has) :
            \/ r = None /\ EligibleSet(peer_has) = {}
            \/ r \in Pieces /\ Eligible(peer_has, r)

\* C25: a task is about to select a piece under the priority set 0..9 on
\* a torrent of fewer than 10 pieces.
C25_SelectUnderStreamSet ==
    \E p \in Peers :
        /\ ppc[p] = "select"
        /\ priority_pieces = 0..(StreamPrefetch - 1)
        /\ num_pieces < StreamPrefetch

----------------------------------------------------------------------------
(* The request pipeline of one connection.                                 *)

\* A torrent of files of 24 and 8 with pieces of 24: a piece of six blocks
\* and a piece of two.
LayoutSixAndTwo == [files |-> <<24, 8>>, piece_length |-> 24]

\* The true Piece message of a block.
GoodPiece(b) ==
    [type |-> "Piece", index |-> b.piece, begin |-> b.offset, block |-> GoodBlock(b)]

\* Unchoke, Choke, Have and the true Piece of every block.
PipelineMessages ==
    {Msg("Unchoke"), Msg("Choke")} \cup HaveMessages
    \cup {GoodPiece(b) : b \in AllBlocks}

InitPipeline ==
    /\ InitSession(LayoutSixAndTwo, {}, {})
    /\ ParseIdle
    /\ CodecIdle

NextPipeline ==
    \/ Start
    \/ ListenerBind(TRUE)
    \/ ListenerAccept(1)
    \/ PeerTask(1, PipelineMessages)

SpecPipeline == InitPipeline /\ [][NextPipeline]_vars

\* C27: on every connection the Requests sent and not yet answered,
\* cancelled by a Choke or dropped are at most MAX_PENDING.
C27_PendingWithinBound ==
    \A p \in Peers : Len(pending_requests[p]) <= MAX_PENDING

\* C27: a connection has MAX_PENDING Requests outstanding and more blocks
\* of its piece queued.
C27_PipelineFull ==
    \E p \in Peers :
        /\ Len(pending_requests[p]) = MAX_PENDING
        /\ blocks_to_request[p] # <<>>

----------------------------------------------------------------------------
(* The request pipeline of a connection whose peer stays unchoked, has     *)
(* every piece and answers every Request, the session Downloading.         *)

\* A torrent of two files of 12 with pieces of 8: three pieces of two
\* blocks, piece 1 across the file boundary.
LayoutThreeEights == [files |-> <<12, 12>>, piece_length |-> 8]

\* Unchoke, the full bitfield and the true Piece of every block.
AnsweringMessages ==
    {Msg("Unchoke"), [type |-> "Bitfield", bitfield |-> Pieces]}
    \cup {GoodPiece(b) : b \in AllBlocks}

\* The steps of the task of p when no send, write or connect fails.
PeerTaskUnfailing(p) ==
    \/ PeerBegin(p, TRUE)
    \/ PeerTop(p, 0)
    \/ \E piece \in Pieces \cup {None} : PeerSelect(p, piece)
    \/ PeerStart(p, 0)
    \/ PeerVerify(p)
    \/ PeerWrite(p, 0)
    \/ PeerMark(p)

\* The remote peer answers one of the outstanding Requests of p.
PeerAnswers(p) ==
    \E k \in 1..Len(pending_requests[p]) :
        PeerRecv(p, GoodPiece(pending_requests[p][k]))

InitAnswering ==
    /\ InitSession(LayoutThreeEights, {}, {})
    /\ ParseIdle
    /\ CodecIdle

NextAnswering ==
    \/ Start
    \/ ListenerBind(TRUE)
    \/ ListenerAccept(1)
    \/ PeerTaskUnfailing(1)
    \/ \E msg \in AnsweringMessages : PeerRecv(1, msg)

\* The runtime schedules a task that can step, and the peer answers a
\* Request that is outstanding again and again.
FairAnswering ==
    /\ WF_vars(Start \/ ListenerBind(TRUE) \/ ListenerAccept(1))
    /\ WF_vars(PeerTaskUnfailing(1))
    /\ SF_vars(PeerAnswers(1))

SpecAnswering == InitAnswering /\ [][NextAnswering]_vars /\ FairAnswering

\* The blocks the task of p can have outstanding: those pending or queued
\* and those of the pieces selectable on its peer.
RequestableBlocks(p) ==
    Len(pending_requests[p]) + Len(blocks_to_request[p])
    + Cardinality({b \in AllBlocks : Eligible(bitfield[p], b.piece)})

\* The peer of p does not choke, the session is Downloading and a piece is
\* selectable on the peer, at least MAX_PENDING blocks being requestable.
PipelineFillable(p) ==
    /\ p \in connected_peers
    /\ ~conn_state[p].peer_choking
    /\ state = "Downloading"
    /\ EligibleSet(bitfield[p]) # {}
    /\ RequestableBlocks(p) >= MAX_PENDING

\* C28: on a connection that stays unchoked in a Downloading session,
\* whenever a piece is selectable on the peer (and MAX_PENDING blocks are
\* there to request) the outstanding Requests eventually number
\* MAX_PENDING.
C28_PipelineReachesTarget ==
    \A p \in Peers :
        PipelineFillable(p) ~> (Len(pending_requests[p]) = MAX_PENDING)

\* C28: the task of p waits for a message with fewer than MAX_PENDING
\* Requests outstanding and nothing queued, on a current piece, while
\* another piece is selectable on its peer.
C28_WaitsBelowTarget ==
    \E p \in Peers :
        /\ PipelineFillable(p)
        /\ ppc[p] = "recv"
        /\ current_piece[p] # None
        /\ blocks_to_request[p] = <<>>
        /\ Len(pending_requests[p]) < MAX_PENDING

----------------------------------------------------------------------------
(* The peer connector over the endpoints that announces and add_peers      *)
(* supply.                                                                 *)

\* TorrentSession::add_peers: the candidate queue after the endpoints
\* peers, each appended unless it is connected or already queued.
RECURSIVE QueueAfterAdd(_, _)
QueueAfterAdd(queue, peers) ==
    IF peers = <<>> THEN queue
    ELSE LET peer == Head(peers)
         IN  QueueAfterAdd(
                 IF peer \notin connected_peers /\ ~Contains(queue, peer)
                 THEN Append(queue, peer) ELSE queue,
                 Tail(peers))

\* TorrentSession::add_peers
AddPeers(peers) ==
    /\ Len(QueueAfterAdd(available_peers, peers)) <= MaxAvailable
    /\ available_peers' = QueueAfterAdd(available_peers, peers)
    /\ UNCHANGED <<state, started, connected_peers, pieceVars, diskVars, stop_rx,
                   trackerVars, loopVars, hostVars, peerVars, restored_valid,
                   httpVars, parseVars, metaVars, codecVars>>

\* The endpoint lists a tracker response or the DHT is taken to give.
EndpointLists == {<<>>, <<1>>, <<2>>, <<1, 2>>}

InitConnector ==
    /\ InitSession(LayoutTwoAndSix, {}, {})
    /\ ParseIdle
    /\ CodecIdle

NextConnector ==
    \/ Start
    \/ TrackerSubscribe
    \/ \E peers \in EndpointLists : TrackerTick(peers)
    \/ \E peers \in EndpointLists : AddPeers(peers)
    \/ ConnectorSubscribe
    \/ ConnectorTick
    \/ \E p \in Peers : PeerConnectFail(p)
    \/ \E p \in Peers : PeerTaskIdle(p)
    \/ \E p \in Peers : PeerRecvError(p)

SpecConnector == InitConnector /\ [][NextConnector]_vars

\* The connector dials the endpoint addr in this step.
Dials(addr) ==
    /\ ConnectorTick
    /\ ppc[addr] = "idle"
    /\ ppc'[addr] = "connect"

\* C29: the connector dials an endpoint only if it has not dialled it
\* before in the life of the session, whatever announces and add_peers
\* return.
C29_EndpointDialledOnce ==
    [][\A addr \in Peers : Dials(addr) => addr \notin attempted]_vars

\* C29: an endpoint that was dialled and has no task and no connection
\* stands in the candidate queue again.
C29_DialledEndpointQueuedAgain ==
    \E addr \in attempted :
        /\ ppc[addr] = "idle"
        /\ addr \notin connected_peers
        /\ Contains(available_peers, addr)

----------------------------------------------------------------------------
(* The connect step of a UDP announce (tracker.rs: udp_connect).           *)

\* for attempt in 0..3
UdpAttempts == 3

\* Duration::from_secs(5 * (1 << attempt)): the first window, in seconds.
UdpBaseTimeout == 5

\* Largest transaction id drawn (rand::random::<u32>() at this scale).
MaxTxId == 3

TxIds == 1..MaxTxId

\* What one recv under its timeout gives: nothing within the window, an
\* error of the socket, or a datagram of len bytes (16-byte buffer) with
\* its action and transaction id.
UdpReplies ==
    {[kind |-> "elapsed"], [kind |-> "error"]}
    \cup {[kind |-> "datagram", len |-> n, action |-> a, transaction_id |-> t] :
            n \in {8, 16}, a \in {0, 3}, t \in TxIds}

\* The reply udp_connect accepts for the transaction id tx.
ValidConnectReply(reply, tx) ==
    /\ reply.kind = "datagram"
    /\ reply.len = 16
    /\ reply.action = 0
    /\ reply.transaction_id = tx

\* udp_connect begins: the transaction id is drawn and the request built,
\* once, before the loop.
UdpConnectBegin(tx) ==
    /\ udp_pc \in {"idle", "done"}
    /\ udp_pc' = "send"
    /\ udp_transaction_id' = tx
    /\ udp_attempt' = 0
    /\ udp_sent' = <<>>
    /\ udp_replies' = <<>>
    /\ udp_result' = "none"
    /\ UNCHANGED <<sessionVars, shakeVars, bencodeVars, torrentVars, magnetVars,
                   filterVars, announceVars>>

\* socket.send(&request).await?: the request goes out and the recv waits
\* 5 * 2^attempt seconds, or the send fails and udp_connect returns the
\* error.
UdpSend(ok) ==
    /\ udp_pc = "send"
    /\ IF ok
       THEN /\ udp_sent' = Append(udp_sent,
                              [transaction_id |-> udp_transaction_id,
                               timeout |-> UdpBaseTimeout * Pow2(udp_attempt)])
            /\ udp_pc' = "recv"
            /\ UNCHANGED udp_result
       ELSE /\ udp_result' = "Io"
            /\ udp_pc' = "done"
            /\ UNCHANGED udp_sent
    /\ UNCHANGED <<udp_transaction_id, udp_attempt, udp_replies, sessionVars,
                   shakeVars, bencodeVars, torrentVars, magnetVars, filterVars,
                   announceVars>>

\* The match on the recv: the valid reply returns the connection id; any
\* other outcome continues with the next attempt, and after the last one
\* udp_connect returns Timeout.
UdpRecv(reply) ==
    /\ udp_pc = "recv"
    /\ udp_replies' = Append(udp_replies, reply)
    /\ IF ValidConnectReply(reply, udp_transaction_id)
       THEN /\ udp_result' = "Ok"
            /\ udp_pc' = "done"
            /\ UNCHANGED udp_attempt
       ELSE /\ udp_attempt' = udp_attempt + 1
            /\ IF udp_attempt + 1 = UdpAttempts
               THEN udp_result' = "Timeout" /\ udp_pc' = "done"
               ELSE udp_pc' = "send" /\ UNCHANGED udp_result
    /\ UNCHANGED <<udp_transaction_id, udp_sent, sessionVars, shakeVars,
                   bencodeVars, torrentVars, magnetVars, filterVars,
                   announceVars>>

InitUdp ==
    /\ InitSession(LayoutTwoAndSix, {}, {})
    /\ ParseIdle
    /\ CodecIdle

NextUdp ==
    \/ \E tx \in TxIds : UdpConnectBegin(tx)
    \/ \E ok \in BOOLEAN : UdpSend(ok)
    \/ \E reply \in UdpReplies : UdpRecv(reply)

SpecUdp == InitUdp /\ [][NextUdp]_vars

\* The k-th recv of this connect step gave the valid reply to the k-th
\* Connect packet.
AnsweredAt(k) == ValidConnectReply(udp_replies[k], udp_sent[k].transaction_id)

\* C30: in one connect step at most 3 Connect packets are sent, the k-th
\* with a window of 5 * 2^(k-1) seconds and a transaction id that no
\* earlier packet of the step carried; the step fails with Timeout exactly
\* when 3 attempts went without a valid reply.
C30_ConnectRetriesFresh ==
    /\ Len(udp_sent) <= UdpAttempts
    /\ \A k \in 1..Len(udp_sent) :
          /\ udp_sent[k].timeout = UdpBaseTimeout * Pow2(k - 1)
          /\ \A j \in 1..(k - 1) :
                udp_sent[j].transaction_id # udp_sent[k].transaction_id
    /\ udp_result = "Timeout" <=>
          /\ Len(udp_replies) = UdpAttempts
          /\ \A k \in 1..UdpAttempts : ~AnsweredAt(k)

\* C30: a connect step has failed with Timeout after three Connect packets
\* with windows of 5, 10 and 20 seconds.
C30_TimedOutAfterThree ==
    /\ udp_result = "Timeout"
    /\ Len(udp_sent) = UdpAttempts
    /\ \A k \in 1..UdpAttempts : udp_sent[k].timeout = UdpBaseTimeout * Pow2(k - 1)

----------------------------------------------------------------------------
(* The trackers of an announce round (session.rs: announce_to_trackers).   *)

\* Most announce rounds followed.
MaxRounds == 3

\* The URLs of the tiers, one after the other.
RECURSIVE FlattenTiers(_)
FlattenTiers(tiers) ==
    IF tiers = <<>> THEN <<>> ELSE Head(tiers) \o FlattenTiers(Tail(tiers))

\* announce_to_trackers: the list it walks, built anew from the metainfo
\* in every round: the announce URL, then the tiers of the announce list.
TrackersToTry ==
    (IF announce # "" THEN <<announce>> ELSE <<>>) \o FlattenTiers(announce_list)

\* The walk over the list when the k-th call of announce() gives
\* answers[k]: the calls made, up to and with the first Ok.
RECURSIVE CallsFrom(_, _, _)
CallsFrom(trackers, answers, k) ==
    IF k > Len(trackers) THEN <<>>
    ELSE <<[url |-> trackers[k], ok |-> answers[k]]>>
         \o (IF answers[k] THEN <<>> ELSE CallsFrom(trackers, answers, k + 1))

\* announce_to_trackers, as to the trackers it calls (the peers of the
\* response are followed by TrackerTick).
AnnounceRound(answers) ==
    /\ Len(announce_log) < MaxRounds
    /\ announce_log' = Append(announce_log, CallsFrom(TrackersToTry, answers, 1))
    /\ UNCHANGED <<announce, announce_list, sessionVars, shakeVars, bencodeVars,
                   torrentVars, magnetVars, filterVars, udpVars>>

\* The trackers of the metainfos followed: two tiers, with and without
\* the announce URL (the first tracker of the first tier), and an
\* announce URL alone.
AnnounceMetainfos ==
    {[announce |-> "a", announce_list |-> << <<"a", "b">>, <<"c">> >>],
     [announce |-> "",  announce_list |-> << <<"a", "b">>, <<"c">> >>],
     [announce |-> "a", announce_list |-> <<>>]}

\* The longest list of trackers walked.
MaxTrackers == 4

InitAnnounce ==
    /\ InitSession(LayoutTwoAndSix, {}, {})
    /\ ParseIdle
    /\ ShakeIdle
    /\ BencodeIdle
    /\ TorrentIdle
    /\ MagnetIdle
    /\ FilterIdle
    /\ UdpIdle
    /\ \E m \in AnnounceMetainfos :
          /\ announce = m.announce
          /\ announce_list = m.announce_list
    /\ announce_log = <<>>

NextAnnounce ==
    \E answers \in [1..MaxTrackers -> BOOLEAN] : AnnounceRound(answers)

SpecAnnounce == InitAnnounce /\ [][NextAnnounce]_vars

\* The tier of a tracker in the announce list (0: in no tier).
TierOf(url) ==
    IF \E t \in 1..Len(announce_list) : Contains(announce_list[t], url)
    THEN CHOOSE t \in 1..Len(announce_list) :
            /\ Contains(announce_list[t], url)
            /\ \A u \in 1..(t - 1) : ~Contains(announce_list[u], url)
    ELSE 0

\* The tracker that answered in a round ("": none did).
AnsweredIn(calls) ==
    IF calls # <<>> /\ calls[Len(calls)].ok THEN calls[Len(calls)].url ELSE ""

\* C31: every round calls the trackers in tier order and stops at the
\* first that answers; in the round after one in which a tracker answered,
\* the first tracker called of that tracker's tier is that tracker.
C31_WorkingTrackerFirst ==
    \A k \in 1..Len(announce_log) :
        LET calls == announce_log[k]
        IN  /\ \A i, j \in 1..Len(calls) :
                  i < j => /\ TierOf(calls[i].url) <= TierOf(calls[j].url)
                           /\ ~calls[i].ok
            /\ (AnsweredIn(calls) = "") => Len(calls) = Len(TrackersToTry)
            /\ (k > 1 /\ AnsweredIn(announce_log[k - 1]) # "") =>
                  LET worked == AnsweredIn(announce_log[k - 1])
                  IN  \A i \in 1..Len(calls) :
                         (/\ TierOf(calls[i].url) = TierOf(worked)
                          /\ \A j \in 1..(i - 1) :
                                TierOf(calls[j].url) # TierOf(worked))
                         => calls[i].url = worked

\* C31: the second tracker of the first tier answered in a round after the
\* first had failed, and the next round called the first one first.
C31_FailedTrackerStillFirst ==
    /\ Len(announce_log) >= 2
    /\ AnsweredIn(announce_log[1]) = "b"
    /\ announce_log[2][1].url = "a"

----------------------------------------------------------------------------
(* Interest in a new connection (run_peer_session before its loop).        *)

\* Whether the messages out hold an Interested.
HasInterested(out) == \E k \in 1..Len(out) : out[k].type = "Interested"

\* C32: the task of a new connection sends Interested, and sets
\* am_interested, only if the peer has advertised a piece that is not
\* Complete.
C32_InterestedOnlyIfLacking ==
    [][\A p \in Peers :
          (/\ PeerBegin(p, TRUE)
           /\ (HasInterested(outbox'[p]) \/ conn_state'[p].am_interested))
          => \E i \in bitfield[p] : ~have[i]]_vars

\* C32: every piece is Complete and the task of a connection that has
\* just begun has sent Interested to a peer that advertised nothing.
C32_InterestedWhenComplete ==
    \E p \in Peers :
        /\ is_complete
        /\ ppc[p] = "top"
        /\ bitfield[p] = {}
        /\ conn_state[p].am_interested
        /\ HasInterested(outbox[p])

----------------------------------------------------------------------------
(* The four flags of a connection under every kind of message.             *)

\* Cancel and Port messages.
CancelMessages ==
    {[type |-> "Cancel", index |-> b.piece, begin |-> b.offset, length |-> b.length] :
        b \in AllBlocks}

PortMessages == {[type |-> "Port", port |-> 6881]}

\* Every kind of message of the wire protocol.
AllMessages == PeerMessages \cup CancelMessages \cup PortMessages

InitFlags ==
    /\ InitSession(LayoutTwoAndSix, {}, {})
    /\ ParseIdle
    /\ CodecIdle

NextFlags ==
    \/ Start
    \/ ListenerBind(TRUE)
    \/ ListenerAccept(1)
    \/ PeerTask(1, AllMessages)

SpecFlags == InitFlags /\ [][NextFlags]_vars

\* The flags cs after a message of the type t, as the protocol has them.
FlagsAfter(cs, t) ==
    [am_choking      |-> cs.am_choking,
     am_interested   |-> cs.am_interested,
     peer_choking    |-> IF t = "Choke" THEN TRUE
                         ELSE IF t = "Unchoke" THEN FALSE ELSE cs.peer_choking,
     peer_interested |-> IF t = "Interested" THEN TRUE
                         ELSE IF t = "NotInterested" THEN FALSE
                         ELSE cs.peer_interested]

\* C33: a connection starts choked and not interested on both sides, and
\* a received message changes the flags only so: Choke and Unchoke set
\* peer_choking, Interested and NotInterested set peer_interested, every
\* other message leaves the four flags as they are.
C33_FlagsFollowMessages ==
    /\ [](\A p \in Peers :
             ppc[p] = "connect" =>
                conn_state[p] = [am_choking |-> TRUE, am_interested |-> FALSE,
                                 peer_choking |-> TRUE, peer_interested |-> FALSE])
    /\ [][\A p \in Peers : \A msg \in AllMessages :
             PeerRecv(p, msg) => conn_state'[p] = FlagsAfter(conn_state[p], msg.type)]_vars

\* C33: a connection on which the peer has sent Unchoke and Interested.
C33_UnchokedAndInterested ==
    \E p \in Peers :
        /\ p \in connected_peers
        /\ ~conn_state[p].peer_choking
        /\ conn_state[p].peer_interested
        /\ conn_state[p].am_choking

----------------------------------------------------------------------------
(* One piece, two tasks (select_piece and start_piece under separate locks).*)

\* The task of p starts the piece v in this step.
Starts(p, v) ==
    /\ ppc[p] = "start"
    /\ current_piece[p] = v
    /\ \E fail \in 0..MAX_PENDING : PeerStart(p, fail)

\* C34: a task starts a piece only if the piece is not in progress, and
\* while a piece stays in progress the blocks its entry holds are never
\* fewer than before.
C34_PieceStartedOnce ==
    [][\A v \in Pieces :
          /\ \A p \in Peers : Starts(p, v) => v \notin DOMAIN in_progress
          /\ (v \in DOMAIN in_progress /\ v \in DOMAIN in_progress')
                => in_progress'[v].received_blocks >= in_progress[v].received_blocks]_vars

\* C34: two tasks have Requests outstanding for the same piece.
C34_TwoTasksOnePiece ==
    \E p, q \in Peers :
        /\ p # q
        /\ current_piece[p] # None
        /\ current_piece[p] = current_piece[q]
        /\ \E k \in 1..Len(pending_requests[p]) :
              pending_requests[p][k].piece = current_piece[p]
        /\ \E k \in 1..Len(pending_requests[q]) :
              pending_requests[q][k].piece = current_piece[q]

----------------------------------------------------------------------------
(* Pieces left in progress.                                                *)

\* The task of p is running its peer session.
LiveTask(p) == ppc[p] \notin {"idle", "connect", "panicked"}

\* C35: every piece in the in-progress map that is not Complete is the
\* current piece of a live peer task.
C35_InProgressHasLiveTask ==
    \A v \in DOMAIN in_progress :
        have[v] \/ \E p \in Peers : LiveTask(p) /\ current_piece[p] = v

\* C35: a piece that is not Complete is in the in-progress map, so that
\* select_piece passes over it, and no peer task is running.
C35_OrphanedPiece ==
    /\ \E v \in DOMAIN in_progress : ~have[v]
    /\ \A p \in Peers : ppc[p] = "idle"

----------------------------------------------------------------------------
(* Blocks at offsets that are no block offsets (receive_block).            *)

\* For each piece a block of one byte that begins at its second byte.
MisalignedBlocks ==
    {[type |-> "Piece", index |-> i, begin |-> 1, block |-> <<9>>] : i \in Pieces}

\* Unchoke, the full bitfield, the true Piece of every block and the
\* misaligned blocks.
BlockMessages ==
    {Msg("Unchoke"), [type |-> "Bitfield", bitfield |-> Pieces]}
    \cup {GoodPiece(b) : b \in AllBlocks}
    \cup MisalignedBlocks

InitBlocks ==
    /\ InitSession(LayoutTwoSixes, {}, {})
    /\ ParseIdle
    /\ CodecIdle

NextBlocks ==
    \/ Start
    \/ ListenerBind(TRUE)
    \/ ListenerAccept(1)
    \/ PeerTask(1, BlockMessages)

SpecBlocks == InitBlocks /\ [][NextBlocks]_vars

\* The expected block offsets of a piece.
BlockOffsets(i) == {blocks_for_piece(i)[k].offset : k \in 1..Len(blocks_for_piece(i))}

\* C36: a piece is taken as fully received (the task goes on to verify it)
\* only when a block is stored at every expected block offset of it; a
\* block for a piece that is not in progress, or at an offset that already
\* holds a block, leaves the in-progress map as it is.
C36_CompleteOnlyWithEveryBlock ==
    [][\A p \in Peers : \A msg \in BlockMessages :
          (msg.type = "Piece" /\ PeerRecv(p, msg)) =>
              /\ (ppc'[p] = "verify") =>
                    BlockOffsets(msg.index) \subseteq DOMAIN in_progress'[msg.index].blocks
              /\ (msg.index \notin DOMAIN in_progress) => in_progress' = in_progress
              /\ (/\ msg.index \in DOMAIN in_progress
                  /\ msg.begin \in DOMAIN in_progress[msg.index].blocks)
                    => in_progress' = in_progress]_vars

\* C36: a task is about to verify a piece of which an expected block has
\* not been stored.
C36_VerifiesWithBlockMissing ==
    \E p \in Peers :
        /\ ppc[p] = "verify"
        /\ vindex[p] \in DOMAIN in_progress
        /\ ~(BlockOffsets(vindex[p]) \subseteq DOMAIN in_progress[vindex[p]].blocks)

----------------------------------------------------------------------------
(* The session state under a pause or stop while a piece is verified.      *)

\* C37: while the session state is Paused or Stopped no step of a peer
\* task changes it.
C37_PeerTaskKeepsPausedState ==
    [][\A p \in Peers :
          (state \in {"Paused", "Stopped"} /\ PeerMark(p)) => state' = state]_vars

\* C37: the session is Paused and a peer task is about to mark the last
\* missing piece, which it has verified and written.
C37_LastPieceAfterPause ==
    \E p \in Peers :
        /\ state = "Paused"
        /\ ppc[p] = "mark"
        /\ verify_result[p] = "ok_true"
        /\ ~have[vindex[p]]
        /\ \A i \in Pieces \ {vindex[p]} : have[i]

----------------------------------------------------------------------------
(* Uploads (the Request arm of run_peer_session).                          *)

\* Whether the messages out hold a Piece.
HasPiece(out) == \E k \in 1..Len(out) : out[k].type = "Piece"

\* Another process of the host rewrites the bytes of the Complete piece i
\* in the download directory (the files stay, as read_data finds them):
\* the change force_recheck is there to find.
PieceOverwritten(i) ==
    /\ have[i]
    /\ PieceOnDiskValid(i)
    /\ disk' = [j \in Offsets |->
                   IF j \div piece_length = i THEN ZeroByte ELSE disk[j]]
    /\ UNCHANGED <<metaVars, sessVars, pieceVars, file_exists, stop_rx,
                   trackerVars, loopVars, hostVars, peerVars, restored_valid,
                   httpVars, parseVars, codecVars>>

InitUpload ==
    /\ InitSession(LayoutTwoAndSix, {}, {})
    /\ ParseIdle
    /\ CodecIdle

\* A session that downloads the torrent from one peer, answers its
\* Requests and is rechecked by the host.
NextUpload ==
    \/ Start
    \/ SessionsInsert
    \/ RecheckBegin
    \/ RecheckVerify
    \/ RecheckRead
    \/ RecheckFinish
    \/ \E i \in Pieces : PieceOverwritten(i)
    \/ ListenerBind(TRUE)
    \/ ListenerAccept(1)
    \/ PeerTaskSound(1, LifeMessages(1) \cup RequestMessages)

SpecUpload == InitUpload /\ [][NextUpload]_vars

\* C38: a peer task answers a Request with a Piece only if the requested
\* piece is Complete in the piece map when its bytes are read.
C38_UploadsOnlyCompletePieces ==
    [][\A p \in Peers : \A msg \in RequestMessages :
          (PeerRecv(p, msg) /\ HasPiece(outbox'[p])) => have[msg.index]]_vars

\* C38: a task that read the state Seeding at the top of its loop waits
\* for a message while a piece is not Complete and its bytes can be read
\* from the files.
C38_SeedingReadWithPieceMissing ==
    \E p \in Peers :
        /\ ppc[p] = "recv"
        /\ lstate[p] = "Seeding"
        /\ \E b \in AllBlocks :
              /\ ~have[b.piece]
              /\ read_data_ok(b.piece * piece_length + b.offset, b.length)

----------------------------------------------------------------------------
(* The connected-peers set.                                                *)

\* C39: the connected-peers set is the set of the endpoints whose peer
\* task is running its peer session.
C39_ConnectedIsLiveTasks ==
    \A p \in Peers : p \in connected_peers <=> LiveTask(p)

\* C39: the task of an endpoint has ended by a panic and the endpoint is
\* in the connected-peers set.
C39_ConnectedWithoutTask ==
    \E p \in Peers : ppc[p] = "panicked" /\ p \in connected_peers

----------------------------------------------------------------------------
(* The session tasks of an active session.                                 *)

\* The tracker loop, the peer connector, the peer listener and the stats
\* sampler are spawned or in their loops.
SessionTasksRunning ==
    /\ tracker_pc \in {"spawned", "loop"}
    /\ connector_pc \in {"spawned", "loop"}
    /\ listener_pc \in {"spawned", "loop"}
    /\ stats_pc \in {"spawned", "loop"}

\* C40: whenever a started session is Downloading or Seeding, its tracker
\* loop, peer connector, peer listener and stats sampler are running.
C40_ActiveSessionHasTasks ==
    (started /\ state \in {"Downloading", "Seeding"}) => SessionTasksRunning

\* C40: a session that was started and stopped has been resumed: it is
\* Downloading, no resume is in flight and its four tasks have ended.
C40_ResumedWithoutTasks ==
    /\ started
    /\ state = "Downloading"
    /\ resume_pc = "idle"
    /\ tracker_pc = "done"
    /\ tracker_log # <<>>
    /\ tracker_log[Len(tracker_log)] = "Stopped"
    /\ connector_pc = "done"
    /\ listener_pc = "done"
    /\ stats_pc = "done"

====
